---------------------------- MODULE Spec2Model ----------------------------
(***************************************************************************)
(* Cocktail aesthetics: the morphisms of cocktail_ologs.py and the cached  *)
(* query interface of cocktail_aesthetics_mcp.py, called one tool at a     *)
(* time (Spec), morphism by morphism (MorphSpec) and from the threads of a *)
(* multi-threaded host (ConcSpec).                                         *)
(*                                                                         *)
(* Strings that the code lowercases, uppercases or normalises are TLA+     *)
(* strings handled character by character (Len, SubSeq, \o).  A Python     *)
(* dict is a sequence of <<key, value>> pairs in insertion order with      *)
(* distinct keys.  A raw cocktail record is a TLA+ record whose DOMAIN is  *)
(* the set of keys the dict holds.                                         *)
(***************************************************************************)
EXTENDS Integers, Sequences, FiniteSets, TLC

VARIABLES
    table,           \* COCKTAIL_TAXONOMY of the running process
    _profile_cache,  \* the module-level profile cache
    scans,           \* number of full scans of the table made so far
    op,              \* the last tool called ("start" before the first)
    arg,             \* its argument(s)
    result,          \* what it returned
    raised,          \* TRUE iff the last tool call let an exception escape
    probe,           \* input handed to a morphism (morphism specification)
    derived,         \* what the morphism returned for it
    callers,         \* threads of a multi-threaded host, each making one query
    overlapped       \* TRUE iff two callers have been in a query at once

vars ==
    <<table, _profile_cache, scans, op, arg, result, raised, probe, derived,
      callers, overlapped>>

----------------------------------------------------------------------------
(* Bounds of the model *)

\* scores are documented as 0-10; inputs are drawn from 0..MaxScore
MaxScore == 10
\* longest generated table (besides the shipped one)
MaxTableLen == 2
\* full scans of the table per behaviour
MaxScans == 2
\* threads of the multi-threaded host
MaxThreads == 2

----------------------------------------------------------------------------
(* str.lower(), str.upper(), str.replace().  The text is drawn from the     *)
(* code points U+0020..U+00FF and eight code points beyond, the ones whose  *)
(* case forms lead into or out of that range: on these str.lower() and      *)
(* str.upper() work character by character, as below.  A module cannot     *)
(* hold a character beyond U+00FF, so each of the eight is written as an    *)
(* ASCII character that no label, name or query of the model contains;      *)
(* wherever that character appears it stands for the code point named.      *)

\* U+017F LATIN SMALL LETTER LONG S: lower() keeps it, upper() gives "S"
LONG_S == "$"
\* U+212A KELVIN SIGN: lower() gives "k", upper() keeps it
KELVIN_SIGN == "%"
\* U+0131 LATIN SMALL LETTER DOTLESS I: lower() keeps it, upper() gives "I"
DOTLESS_I == "!"
\* U+0130 LATIN CAPITAL LETTER I WITH DOT ABOVE: lower() gives "i" followed
\* by U+0307, upper() keeps it
CAPITAL_I_WITH_DOT == "|"
\* U+0307 COMBINING DOT ABOVE: uncased
COMBINING_DOT == "^"
\* U+0178 LATIN CAPITAL LETTER Y WITH DIAERESIS, the upper-case form of U+00FF
CAPITAL_Y_DIAERESIS == "~"
\* U+039C GREEK CAPITAL LETTER MU, the upper-case form of U+00B5 MICRO SIGN
\* and of U+03BC GREEK SMALL LETTER MU
GREEK_CAPITAL_MU == "{"
GREEK_SMALL_MU == "}"

\* the letters of U+0020..U+00FF that have both case forms in that range
UpperChars == "ABCDEFGHIJKLMNOPQRSTUVWXYZÀÁÂÃÄÅÆÇÈÉÊËÌÍÎÏÐÑÒÓÔÕÖØÙÚÛÜÝÞ"
LowerChars == "abcdefghijklmnopqrstuvwxyzàáâãäåæçèéêëìíîïðñòóôõöøùúûüýþ"

CharAt(s, i) == SubSeq(s, i, i)

\* the upper-case letters with their lower-case forms, and the converse
ToLower == [c \in {CharAt(UpperChars, i) : i \in 1..Len(UpperChars)} |->
              CharAt(LowerChars,
                     CHOOSE i \in 1..Len(UpperChars) : CharAt(UpperChars, i) = c)]
ToUpper == [c \in {CharAt(LowerChars, i) : i \in 1..Len(LowerChars)} |->
              CharAt(UpperChars,
                     CHOOSE i \in 1..Len(LowerChars) : CharAt(LowerChars, i) = c)]

lower_char(c) ==
    IF c \in DOMAIN ToLower THEN ToLower[c]
    ELSE IF c = KELVIN_SIGN THEN "k"
    ELSE IF c = CAPITAL_I_WITH_DOT THEN "i" \o COMBINING_DOT
    ELSE IF c = CAPITAL_Y_DIAERESIS THEN "ÿ"
    ELSE IF c = GREEK_CAPITAL_MU THEN GREEK_SMALL_MU
    ELSE c

upper_char(c) ==
    IF c \in DOMAIN ToUpper THEN ToUpper[c]
    ELSE IF c = LONG_S THEN "S"
    ELSE IF c = DOTLESS_I THEN "I"
    ELSE IF c = "ß" THEN "SS"
    ELSE IF c = "ÿ" THEN CAPITAL_Y_DIAERESIS
    ELSE IF c \in {"µ", GREEK_SMALL_MU} THEN GREEK_CAPITAL_MU
    ELSE c

RECURSIVE lower(_)
lower(s) ==
    IF Len(s) = 0 THEN ""
    ELSE lower_char(CharAt(s, 1)) \o lower(SubSeq(s, 2, Len(s)))

RECURSIVE upper(_)
upper(s) ==
    IF Len(s) = 0 THEN ""
    ELSE upper_char(CharAt(s, 1)) \o upper(SubSeq(s, 2, Len(s)))

\* s.replace(old, new) for single characters old and new
RECURSIVE replace(_, _, _)
replace(s, old, new) ==
    IF Len(s) = 0 THEN ""
    ELSE (IF CharAt(s, 1) = old THEN new ELSE CharAt(s, 1))
         \o replace(SubSeq(s, 2, Len(s)), old, new)

----------------------------------------------------------------------------
(* Layer 1: the enumerations.  A member is represented by its value; the   *)
(* members of a str-Enum compare equal to their value strings.             *)

\* <<member name, value>>
SpiritBase ==
    << <<"RUM", "rum">>, <<"WHISKEY", "whiskey">>, <<"VODKA", "vodka">>,
       <<"GIN", "gin">>, <<"TEQUILA", "tequila">>, <<"COGNAC", "cognac">>,
       <<"MEZCAL", "mezcal">> >>

FlavorType ==
    << <<"BITTER", "bitter">>, <<"SWEET", "sweet">>, <<"SOUR", "sour">>,
       <<"SPIRIT_FORWARD", "spirit_forward">>, <<"HERBAL", "herbal">>,
       <<"FRUITY", "fruity">>, <<"CREAMY", "creamy">>, <<"SPICED", "spiced">>,
       <<"SMOKY", "smoky">> >>

ComplexityLevel ==
    << <<"SIMPLE", "simple">>, <<"MODERATE", "moderate">>,
       <<"COMPLEX", "complex">> >>

Members(enum) == {enum[i][2] : i \in 1..Len(enum)}

\* Enum(value): the member with that value, or a ValueError
HasValue(enum, v) == \E i \in 1..Len(enum) : enum[i][2] = v
ByValue(enum, v) == enum[CHOOSE i \in 1..Len(enum) : enum[i][2] = v][2]

\* Enum[name]: the member with that name, or a KeyError
HasName(enum, n) == \E i \in 1..Len(enum) : enum[i][1] = n
ByName(enum, n) == enum[CHOOSE i \in 1..Len(enum) : enum[i][1] = n][2]

----------------------------------------------------------------------------
(* Layer 3: the morphisms *)

\* dict.get(key, default) on a dict given as a sequence of <<key, value>>
MapGet(map, key, default) ==
    IF \E i \in 1..Len(map) : map[i][1] = key
    THEN map[CHOOSE i \in 1..Len(map) : map[i][1] = key][2]
    ELSE default

\* spirit_base_to_warmth with 0 as the fallback of the table lookup
spirit_base_to_warmth_default0(spirit) ==
    LET warmth_map == << <<"rum", 9>>, <<"whiskey", 8>>, <<"cognac", 9>>,
                         <<"mezcal", 8>>, <<"tequila", 7>>, <<"gin", 5>>,
                         <<"vodka", 3>> >>
    IN  MapGet(warmth_map, spirit, 0)

spirit_base_to_warmth(spirit) ==
    LET warmth_map == << <<"rum", 9>>, <<"whiskey", 8>>, <<"cognac", 9>>,
                         <<"mezcal", 8>>, <<"tequila", 7>>, <<"gin", 5>>,
                         <<"vodka", 3>> >>
    IN  MapGet(warmth_map, spirit, 5)

spirit_base_to_color_category(spirit) ==
    LET color_map == << <<"rum", "golden">>, <<"whiskey", "amber">>,
                        <<"cognac", "amber">>, <<"mezcal", "golden">>,
                        <<"tequila", "clear">>, <<"gin", "clear">>,
                        <<"vodka", "clear">> >>
    IN  MapGet(color_map, spirit, "clear")

flavor_to_mood(flavor) ==
    LET mood_map == << <<"bitter", "sophisticated">>, <<"sweet", "playful">>,
                       <<"spirit_forward", "bold">>, <<"herbal", "elegant">>,
                       <<"fruity", "tropical">>, <<"creamy", "nostalgic">>,
                       <<"smoky", "dark">>, <<"sour", "bold">>,
                       <<"spiced", "aromatic">> >>
    IN  MapGet(mood_map, flavor, "sophisticated")

complexity_to_composition(complexity) ==
    LET composition_map == << <<"simple", "minimalist">>,
                              <<"moderate", "balanced">>,
                              <<"complex", "layered">> >>
    IN  MapGet(composition_map, complexity, "balanced")

bitterness_to_lighting(bitterness) ==
    IF bitterness >= 7 THEN "dramatic_shadow"
    ELSE IF bitterness >= 5 THEN "warm_side_lit"
    ELSE "diffused_soft"

\* warmth_and_complexity_to_lighting calling a spirit warm from 9 on, not
\* from 8 as the temperature rule does
warmth_and_complexity_to_lighting_from9(warmth, complexity) ==
    IF warmth >= 9 /\ complexity = "complex" THEN "golden_hour"
    ELSE IF warmth >= 9 THEN "moody_amber"
    ELSE IF warmth <= 4 THEN "crisp_backlit"
    ELSE "warm_side_lit"

\* warmth_and_complexity_to_lighting with the thresholds compared strictly
warmth_and_complexity_to_lighting_strict(warmth, complexity) ==
    IF warmth > 8 /\ complexity = "complex" THEN "golden_hour"
    ELSE IF warmth > 8 THEN "moody_amber"
    ELSE IF warmth < 4 THEN "crisp_backlit"
    ELSE "warm_side_lit"

warmth_and_complexity_to_lighting(warmth, complexity) ==
    IF warmth >= 8 /\ complexity = "complex" THEN "golden_hour"
    ELSE IF warmth >= 8 THEN "moody_amber"
    ELSE IF warmth <= 4 THEN "crisp_backlit"
    ELSE "warm_side_lit"

\* texture_from_components with ice tested before effervescence
texture_from_components_ice_first(has_cream, has_ice, is_effervescent) ==
    IF has_cream THEN "creamy"
    ELSE IF has_ice THEN "crystalline"
    ELSE IF is_effervescent THEN "effervescent"
    ELSE "translucent"

texture_from_components(has_cream, has_ice, is_effervescent) ==
    IF has_cream THEN "creamy"
    ELSE IF is_effervescent THEN "effervescent"
    ELSE IF has_ice THEN "crystalline"
    ELSE "translucent"

\* temperature_vibe with the cold threshold of the lighting rule (4)
temperature_vibe_le4(warmth) ==
    IF warmth >= 8 THEN "warm"
    ELSE IF warmth <= 4 THEN "icy"
    ELSE "ambient"

\* build_visual_parameters: "Temperature vibe correlates with warmth"
temperature_vibe(warmth) ==
    IF warmth >= 8 THEN "warm"
    ELSE IF warmth <= 3 THEN "icy"
    ELSE "ambient"

\* secondary_moods with the three checks chained by elif: one mood at most
secondary_moods_exclusive(richness, complexity, sweetness) ==
    IF richness >= 7 THEN <<"elegant">>
    ELSE IF complexity = "complex" THEN <<"aromatic">>
    ELSE IF sweetness >= 6 THEN <<"playful">>
    ELSE <<>>

\* build_visual_parameters: "Determine secondary moods from flavor complexity"
secondary_moods(richness, complexity, sweetness) ==
    LET m0 == <<>>
        m1 == IF richness >= 7 THEN Append(m0, "elegant") ELSE m0
        m2 == IF complexity = "complex" THEN Append(m1, "aromatic") ELSE m1
        m3 == IF sweetness >= 6 THEN Append(m2, "playful") ELSE m2
    IN  m3

\* build_visual_parameters taking its lighting from bitterness_to_lighting
build_visual_parameters_bitter_lighting(spirit, primary_flavor, complexity, bitterness, sweetness, richness, color_palette, has_cream, has_ice, is_effervescent) ==
    [primary_color_category |-> spirit_base_to_color_category(spirit),
     color_palette          |-> color_palette,
     lighting_style         |-> bitterness_to_lighting(bitterness),
     primary_mood           |-> flavor_to_mood(primary_flavor),
     secondary_moods        |-> secondary_moods(richness, complexity,
                                                sweetness),
     composition_strategy   |-> complexity_to_composition(complexity),
     texture_quality        |-> texture_from_components(has_cream, has_ice,
                                                        is_effervescent),
     temperature_vibe       |-> temperature_vibe(spirit_base_to_warmth(spirit))]

build_visual_parameters(spirit, primary_flavor, complexity, bitterness, sweetness, richness, color_palette, has_cream, has_ice, is_effervescent) ==
    LET primary_color == spirit_base_to_color_category(spirit)
        primary_mood  == flavor_to_mood(primary_flavor)
        warmth        == spirit_base_to_warmth(spirit)
        composition   == complexity_to_composition(complexity)
        lighting      == warmth_and_complexity_to_lighting(warmth, complexity)
        texture       == texture_from_components(has_cream, has_ice,
                                                 is_effervescent)
        temperature   == temperature_vibe(warmth)
    IN  [primary_color_category |-> primary_color,
         color_palette          |-> color_palette,
         lighting_style         |-> lighting,
         primary_mood           |-> primary_mood,
         secondary_moods        |-> secondary_moods(richness, complexity,
                                                    sweetness),
         composition_strategy   |-> composition,
         texture_quality        |-> texture,
         temperature_vibe       |-> temperature]

\* cocktail_data.get(key, default) on a raw record
Get(d, key, default) == IF key \in DOMAIN d THEN d[key] ELSE default

\* The exception cocktail_to_profile raises on cocktail_data, "none" if it
\* returns.  The checks are made in the order of the statements.
cocktail_to_profile_error(d) ==
    IF "spirit_base" \notin DOMAIN d THEN "KeyError"
    ELSE IF ~HasValue(SpiritBase, lower(d.spirit_base)) THEN "ValueError"
    ELSE IF "primary_flavor" \notin DOMAIN d THEN "KeyError"
    ELSE IF ~HasName(FlavorType, upper(lower(d.primary_flavor))) THEN "KeyError"
    ELSE IF ~HasValue(ComplexityLevel, lower(Get(d, "complexity", "moderate")))
         THEN "ValueError"
    ELSE IF "name" \notin DOMAIN d THEN "KeyError"
    ELSE "none"

\* cocktail_to_profile taking a record without "has_ice" for a drink
\* without ice
cocktail_to_profile_no_ice(d) ==
    LET spirit         == ByValue(SpiritBase, lower(d.spirit_base))
        primary_flavor == ByName(FlavorType, upper(lower(d.primary_flavor)))
        complexity     == ByValue(ComplexityLevel,
                                  lower(Get(d, "complexity", "moderate")))
        bitterness     == Get(d, "bitterness", 5)
        sweetness      == Get(d, "sweetness", 5)
        richness       == Get(d, "richness", 5)
    IN  [name           |-> d.name,
         spirit_base    |-> spirit,
         primary_flavor |-> primary_flavor,
         flavor_profile |->
            [primary_flavor    |-> primary_flavor,
             secondary_flavors |-> <<>>,
             complexity        |-> complexity,
             warmth_level      |-> spirit_base_to_warmth(spirit),
             bitterness        |-> bitterness,
             sweetness         |-> sweetness,
             richness          |-> richness],
         visual_parameters |->
            build_visual_parameters(
                spirit, primary_flavor, complexity, bitterness, sweetness,
                richness, Get(d, "color_palette", <<>>),
                Get(d, "has_cream", FALSE), Get(d, "has_ice", FALSE),
                Get(d, "is_effervescent", FALSE)),
         description    |-> Get(d, "description", "")]

\* cocktail_to_profile recording the default warmth (5) in the flavor
\* profile instead of the warmth of the spirit
cocktail_to_profile_default_warmth(d) ==
    LET spirit         == ByValue(SpiritBase, lower(d.spirit_base))
        primary_flavor == ByName(FlavorType, upper(lower(d.primary_flavor)))
        complexity     == ByValue(ComplexityLevel,
                                  lower(Get(d, "complexity", "moderate")))
        bitterness     == Get(d, "bitterness", 5)
        sweetness      == Get(d, "sweetness", 5)
        richness       == Get(d, "richness", 5)
    IN  [name           |-> d.name,
         spirit_base    |-> spirit,
         primary_flavor |-> primary_flavor,
         flavor_profile |->
            [primary_flavor    |-> primary_flavor,
             secondary_flavors |-> <<>>,
             complexity        |-> complexity,
             warmth_level      |-> 5,
             bitterness        |-> bitterness,
             sweetness         |-> sweetness,
             richness          |-> richness],
         visual_parameters |->
            build_visual_parameters(
                spirit, primary_flavor, complexity, bitterness, sweetness,
                richness, Get(d, "color_palette", <<>>),
                Get(d, "has_cream", FALSE), Get(d, "has_ice", TRUE),
                Get(d, "is_effervescent", FALSE)),
         description    |-> Get(d, "description", "")]

\* The CocktailProfile cocktail_to_profile returns when it raises nothing
cocktail_to_profile(d) ==
    LET spirit         == ByValue(SpiritBase, lower(d.spirit_base))
        primary_flavor == ByName(FlavorType, upper(lower(d.primary_flavor)))
        complexity     == ByValue(ComplexityLevel,
                                  lower(Get(d, "complexity", "moderate")))
        bitterness     == Get(d, "bitterness", 5)
        sweetness      == Get(d, "sweetness", 5)
        richness       == Get(d, "richness", 5)
    IN  [name           |-> d.name,
         spirit_base    |-> spirit,
         primary_flavor |-> primary_flavor,
         flavor_profile |->
            [primary_flavor    |-> primary_flavor,
             secondary_flavors |-> <<>>,
             complexity        |-> complexity,
             warmth_level      |-> spirit_base_to_warmth(spirit),
             bitterness        |-> bitterness,
             sweetness         |-> sweetness,
             richness          |-> richness],
         visual_parameters |->
            build_visual_parameters(
                spirit, primary_flavor, complexity, bitterness, sweetness,
                richness, Get(d, "color_palette", <<>>),
                Get(d, "has_cream", FALSE), Get(d, "has_ice", TRUE),
                Get(d, "is_effervescent", FALSE)),
         description    |-> Get(d, "description", "")]

----------------------------------------------------------------------------
(* The static table and the tables the model runs the server on *)

COCKTAIL_TAXONOMY ==
  <<
    <<"negroni",
        [name |-> "Negroni",
         spirit_base |-> "gin",
         primary_flavor |-> "bitter",
         complexity |-> "simple",
         bitterness |-> 8,
         sweetness |-> 3,
         richness |-> 6,
         color_palette |-> <<"#8B1A1A", "#D2691E", "#FFA500">>,
         has_cream |-> FALSE,
         has_ice |-> TRUE,
         is_effervescent |-> FALSE,
         description |-> "Classic aperitivo: gin, Campari, vermouth rosso. Bitter, bold, balanced."]>>,
    <<"mai_tai",
        [name |-> "Mai Tai",
         spirit_base |-> "rum",
         primary_flavor |-> "fruity",
         complexity |-> "complex",
         bitterness |-> 2,
         sweetness |-> 6,
         richness |-> 8,
         color_palette |-> <<"#FF6B35", "#F7931E", "#8B4513", "#00A86B">>,
         has_cream |-> FALSE,
         has_ice |-> TRUE,
         is_effervescent |-> FALSE,
         description |-> "Tiki classic: aged rum, lime, orgeat, curaçao. Sweet, tropical, complex."]>>,
    <<"daiquiri",
        [name |-> "Daiquiri",
         spirit_base |-> "rum",
         primary_flavor |-> "sour",
         complexity |-> "simple",
         bitterness |-> 1,
         sweetness |-> 3,
         richness |-> 3,
         color_palette |-> <<"#FFF8DC", "#FFE4B5", "#F0E68C">>,
         has_cream |-> FALSE,
         has_ice |-> TRUE,
         is_effervescent |-> FALSE,
         description |-> "Elegant simplicity: white rum, fresh lime, simple syrup."]>>,
    <<"old_fashioned",
        [name |-> "Old Fashioned",
         spirit_base |-> "whiskey",
         primary_flavor |-> "spirit_forward",
         complexity |-> "simple",
         bitterness |-> 4,
         sweetness |-> 2,
         richness |-> 7,
         color_palette |-> <<"#8B4513", "#A0522D", "#654321">>,
         has_cream |-> FALSE,
         has_ice |-> TRUE,
         is_effervescent |-> FALSE,
         description |-> "Timeless classic: whiskey, sugar, bitters, orange twist."]>>,
    <<"mojito",
        [name |-> "Mojito",
         spirit_base |-> "rum",
         primary_flavor |-> "herbal",
         complexity |-> "moderate",
         bitterness |-> 1,
         sweetness |-> 4,
         richness |-> 2,
         color_palette |-> <<"#00AA66", "#FFE4B5", "#FFFFFF">>,
         has_cream |-> FALSE,
         has_ice |-> TRUE,
         is_effervescent |-> TRUE,
         description |-> "Refreshing summer drink: white rum, mint, lime, soda, sugar."]>>,
    <<"margarita",
        [name |-> "Margarita",
         spirit_base |-> "tequila",
         primary_flavor |-> "sour",
         complexity |-> "moderate",
         bitterness |-> 0,
         sweetness |-> 4,
         richness |-> 3,
         color_palette |-> <<"#FFE4B5", "#FFA500", "#FF6347">>,
         has_cream |-> FALSE,
         has_ice |-> TRUE,
         is_effervescent |-> FALSE,
         description |-> "Iconic: tequila, lime, triple sec, salt rim."]>>,
    <<"espresso_martini",
        [name |-> "Espresso Martini",
         spirit_base |-> "vodka",
         primary_flavor |-> "bitter",
         complexity |-> "moderate",
         bitterness |-> 6,
         sweetness |-> 5,
         richness |-> 8,
         color_palette |-> <<"#2F4F4F", "#8B7355", "#FFFFFF">>,
         has_cream |-> FALSE,
         has_ice |-> FALSE,
         is_effervescent |-> FALSE,
         description |-> "Modern sophistication: vodka, coffee liqueur, espresso, cream."]>>,
    <<"sazerac",
        [name |-> "Sazerac",
         spirit_base |-> "whiskey",
         primary_flavor |-> "herbal",
         complexity |-> "simple",
         bitterness |-> 5,
         sweetness |-> 1,
         richness |-> 6,
         color_palette |-> <<"#A0522D", "#8B4513", "#FFD700">>,
         has_cream |-> FALSE,
         has_ice |-> TRUE,
         is_effervescent |-> FALSE,
         description |-> "New Orleans classic: rye, absinthe, Peychaud's bitters."]>>
  >>

\* Records a table is built from: two shipped records (mai_tai and
\* old_fashioned), a record whose spirit is no SpiritBase value, one whose
\* flavor is no FlavorType name, and one holding only the required keys with
\* labels in mixed case.
RecordPool ==
  << COCKTAIL_TAXONOMY[2], COCKTAIL_TAXONOMY[4],
     <<"absinthe_drip",
        [name |-> "Absinthe Drip", spirit_base |-> "absinthe",
         primary_flavor |-> "herbal", complexity |-> "simple"]>>,
     <<"umami_bomb",
        [name |-> "Umami Bomb", spirit_base |-> "vodka",
         primary_flavor |-> "umami", richness |-> 9]>>,
     <<"rum_neat",
        [name |-> "Rum Neat", spirit_base |-> "Rum",
         primary_flavor |-> "SWEET"]>> >>

\* The sequences of k distinct indices into 1..n
InjSeqs(n, k) ==
    {s \in [1..k -> 1..n] : \A i, j \in 1..k : i # j => s[i] # s[j]}

Tables ==
    {COCKTAIL_TAXONOMY} \cup
    UNION {{[i \in 1..k |-> RecordPool[s[i]]] : s \in InjSeqs(Len(RecordPool), k)}
           : k \in 0..MaxTableLen}

\* Arguments the tools are called with
CocktailNames ==
    {"old_fashioned", "Old Fashioned", "old-fashioned", "OLD_FASHIONED",
     "Negroni", "mai-tai", "Absinthe Drip", "umami_bomb", "rum neat",
     "martini"}

BasePrompts == {"a lighthouse at dusk", ""}

FlavorQueries ==
    {"spirit_forward", "Spirit Forward", "spirit-forward", "BITTER", "sweet",
     "umami", "SUCRÉ"}

SpiritQueries ==
    {"Rum", "tequila", "VODKA", "absinthe", "vod" \o KELVIN_SIGN \o "a"}

----------------------------------------------------------------------------
(* The profile cache: a dict from key to CocktailProfile *)

HasKey(c, key) == \E i \in 1..Len(c) : c[i][1] = key
Lookup(c, key) == c[CHOOSE i \in 1..Len(c) : c[i][1] = key][2]
Keys(c) == [i \in 1..Len(c) |-> c[i][1]]

\* c[key] = value
DictSet(c, key, value) ==
    IF HasKey(c, key)
    THEN [i \in 1..Len(c) |-> IF c[i][1] = key THEN <<key, value>> ELSE c[i]]
    ELSE Append(c, <<key, value>>)

\* The loop without its try/except: the first failing record ends the scan
\* and its exception escapes.
RECURSIVE populate_from_no_try(_, _, _)
populate_from_no_try(t, i, c) ==
    IF i > Len(t) THEN [cache |-> c, raised |-> FALSE]
    ELSE IF cocktail_to_profile_error(t[i][2]) = "none"
         THEN populate_from_no_try(t, i + 1,
                                   DictSet(c, t[i][1], cocktail_to_profile(t[i][2])))
         ELSE [cache |-> c, raised |-> TRUE]

\* The loop with one secondary-mood list shared by all conversions: each
\* profile's list starts with the moods collected for the records before it.
RECURSIVE populate_from_shared_moods(_, _, _)
populate_from_shared_moods(t, i, c) ==
    IF i > Len(t) THEN [cache |-> c, raised |-> FALSE]
    ELSE IF cocktail_to_profile_error(t[i][2]) = "none"
         THEN LET own    == cocktail_to_profile(t[i][2])
                  shared == IF Len(c) = 0 THEN <<>>
                            ELSE c[Len(c)][2].visual_parameters.secondary_moods
                  visual == [own.visual_parameters EXCEPT
                                !.secondary_moods = shared \o @]
              IN  populate_from_shared_moods(
                      t, i + 1,
                      DictSet(c, t[i][1],
                              [own EXCEPT !.visual_parameters = visual]))
         ELSE populate_from_shared_moods(t, i + 1, c)

\* The loop of _ensure_cached over COCKTAIL_TAXONOMY.items() from item i on:
\* a record whose conversion raises is reported and skipped.
RECURSIVE populate_from(_, _, _)
populate_from(t, i, c) ==
    IF i > Len(t) THEN [cache |-> c, raised |-> FALSE]
    ELSE IF cocktail_to_profile_error(t[i][2]) = "none"
         THEN populate_from(t, i + 1,
                            DictSet(c, t[i][1], cocktail_to_profile(t[i][2])))
         ELSE populate_from(t, i + 1, c)

\* the populate-if-empty test that never finds the cache populated
cache_is_empty_always(c) == TRUE

\* "not _profile_cache"
cache_is_empty(c) == Len(c) = 0

\* _ensure_cached() on cache c and table t: the cache it leaves, whether it
\* scanned the table, and whether it let an exception escape.
_ensure_cached(c, t) ==
    IF cache_is_empty(c)
    THEN LET p == populate_from(t, 1, c)
         IN  [cache |-> p.cache, scanned |-> TRUE, raised |-> p.raised]
    ELSE [cache |-> c, scanned |-> FALSE, raised |-> FALSE]

----------------------------------------------------------------------------
(* The tools.  Each gives the cache it leaves, whether the table was       *)
(* scanned, whether an exception escaped, and the value returned.          *)

Outcome(e, value) ==
    [cache   |-> e.cache,
     scanned |-> e.scanned,
     raised  |-> e.raised,
     result  |-> IF e.raised THEN [exception |-> TRUE] ELSE value]

NotFound(cocktail_name) ==
    [error |-> <<"Cocktail '", cocktail_name, "' not found">>]

mood_keywords(visual) == <<visual.primary_mood>> \o visual.secondary_moods

to_dict(visual) ==
    [primary_color   |-> visual.primary_color_category,
     color_palette   |-> visual.color_palette,
     lighting        |-> visual.lighting_style,
     mood            |-> visual.primary_mood,
     secondary_moods |-> visual.secondary_moods,
     composition     |-> visual.composition_strategy,
     texture         |-> visual.texture_quality,
     temperature     |-> visual.temperature_vibe]

\* list_cocktails giving the display name of the profile as its id
list_cocktails_name_as_id(c, t) ==
    LET e == _ensure_cached(c, t)
        cocktails == [i \in 1..Len(e.cache) |->
                        [id             |-> e.cache[i][2].name,
                         name           |-> e.cache[i][2].name,
                         spirit_base    |-> e.cache[i][2].spirit_base,
                         primary_flavor |-> e.cache[i][2].primary_flavor,
                         description    |-> e.cache[i][2].description]]
    IN  Outcome(e, [cocktails |-> cocktails, count |-> Len(cocktails)])

list_cocktails(c, t) ==
    LET e == _ensure_cached(c, t)
        cocktails == [i \in 1..Len(e.cache) |->
                        [id             |-> e.cache[i][1],
                         name           |-> e.cache[i][2].name,
                         spirit_base    |-> e.cache[i][2].spirit_base,
                         primary_flavor |-> e.cache[i][2].primary_flavor,
                         description    |-> e.cache[i][2].description]]
    IN  Outcome(e, [cocktails |-> cocktails, count |-> Len(cocktails)])

\* get_cocktail_profile without the membership test: a miss is a KeyError
get_cocktail_profile_unchecked(c, t, cocktail_name) ==
    LET e   == _ensure_cached(c, t)
        key == replace(replace(lower(cocktail_name), " ", "_"), "-", "_")
    IN  IF ~HasKey(e.cache, key)
        THEN [cache |-> e.cache, scanned |-> e.scanned, raised |-> TRUE,
              result |-> [exception |-> TRUE]]
        ELSE LET profile == Lookup(e.cache, key)
             IN  Outcome(e,
                   [name           |-> profile.name,
                    spirit_base    |-> profile.spirit_base,
                    primary_flavor |-> profile.primary_flavor,
                    flavor_profile |->
                       [complexity   |-> profile.flavor_profile.complexity,
                        bitterness   |-> profile.flavor_profile.bitterness,
                        sweetness    |-> profile.flavor_profile.sweetness,
                        richness     |-> profile.flavor_profile.richness,
                        warmth_level |-> profile.flavor_profile.warmth_level],
                    description    |-> profile.description])

\* get_cocktail_profile taking the profile out of the cache as it reads it
\* (_profile_cache.pop(key))
get_cocktail_profile_popping(c, t, cocktail_name) ==
    LET e   == _ensure_cached(c, t)
        key == replace(replace(lower(cocktail_name), " ", "_"), "-", "_")
    IN  IF ~HasKey(e.cache, key) THEN Outcome(e, NotFound(cocktail_name))
        ELSE LET profile == Lookup(e.cache, key)
             IN  [cache   |-> SelectSeq(e.cache,
                                        LAMBDA entry : entry[1] # key),
                  scanned |-> e.scanned,
                  raised  |-> FALSE,
                  result  |->
                   [name           |-> profile.name,
                    spirit_base    |-> profile.spirit_base,
                    primary_flavor |-> profile.primary_flavor,
                    flavor_profile |->
                       [complexity   |-> profile.flavor_profile.complexity,
                        bitterness   |-> profile.flavor_profile.bitterness,
                        sweetness    |-> profile.flavor_profile.sweetness,
                        richness     |-> profile.flavor_profile.richness,
                        warmth_level |-> profile.flavor_profile.warmth_level],
                    description    |-> profile.description]]

\* get_cocktail_profile looking the name up as it was typed
get_cocktail_profile_as_typed(c, t, cocktail_name) ==
    LET e   == _ensure_cached(c, t)
        key == cocktail_name
    IN  IF ~HasKey(e.cache, key) THEN Outcome(e, NotFound(cocktail_name))
        ELSE LET profile == Lookup(e.cache, key)
             IN  Outcome(e,
                   [name           |-> profile.name,
                    spirit_base    |-> profile.spirit_base,
                    primary_flavor |-> profile.primary_flavor,
                    flavor_profile |->
                       [complexity   |-> profile.flavor_profile.complexity,
                        bitterness   |-> profile.flavor_profile.bitterness,
                        sweetness    |-> profile.flavor_profile.sweetness,
                        richness     |-> profile.flavor_profile.richness,
                        warmth_level |-> profile.flavor_profile.warmth_level],
                    description    |-> profile.description])

get_cocktail_profile(c, t, cocktail_name) ==
    LET e   == _ensure_cached(c, t)
        key == replace(replace(lower(cocktail_name), " ", "_"), "-", "_")
    IN  IF ~HasKey(e.cache, key) THEN Outcome(e, NotFound(cocktail_name))
        ELSE LET profile == Lookup(e.cache, key)
             IN  Outcome(e,
                   [name           |-> profile.name,
                    spirit_base    |-> profile.spirit_base,
                    primary_flavor |-> profile.primary_flavor,
                    flavor_profile |->
                       [complexity   |-> profile.flavor_profile.complexity,
                        bitterness   |-> profile.flavor_profile.bitterness,
                        sweetness    |-> profile.flavor_profile.sweetness,
                        richness     |-> profile.flavor_profile.richness,
                        warmth_level |-> profile.flavor_profile.warmth_level],
                    description    |-> profile.description])

\* get_visual_parameters whose key keeps its hyphens
get_visual_parameters_no_hyphen(c, t, cocktail_name) ==
    LET e   == _ensure_cached(c, t)
        key == replace(lower(cocktail_name), " ", "_")
    IN  IF ~HasKey(e.cache, key) THEN Outcome(e, NotFound(cocktail_name))
        ELSE LET profile == Lookup(e.cache, key)
                 visual  == profile.visual_parameters
             IN  Outcome(e,
                   [cocktail             |-> profile.name,
                    visual_parameters    |-> to_dict(visual),
                    composition_strategy |-> visual.composition_strategy,
                    temperature_vibe     |-> visual.temperature_vibe,
                    mood_keywords        |-> mood_keywords(visual)])

get_visual_parameters(c, t, cocktail_name) ==
    LET e   == _ensure_cached(c, t)
        key == replace(replace(lower(cocktail_name), " ", "_"), "-", "_")
    IN  IF ~HasKey(e.cache, key) THEN Outcome(e, NotFound(cocktail_name))
        ELSE LET profile == Lookup(e.cache, key)
                 visual  == profile.visual_parameters
             IN  Outcome(e,
                   [cocktail             |-> profile.name,
                    visual_parameters    |-> to_dict(visual),
                    composition_strategy |-> visual.composition_strategy,
                    temperature_vibe     |-> visual.temperature_vibe,
                    mood_keywords        |-> mood_keywords(visual)])

\* sep.join(parts) for a sequence of strings
RECURSIVE join(_, _)
join(sep, parts) ==
    IF Len(parts) = 0 THEN ""
    ELSE IF Len(parts) = 1 THEN parts[1]
    ELSE parts[1] \o sep \o join(sep, Tail(parts))

\* The f-string of enhance_prompt_with_cocktail
suggested_enhancement(visual) ==
    "Add these aesthetic qualities to your prompt: "
        \o join(", ", mood_keywords(visual)) \o ". "
        \o "Use " \o visual.lighting_style \o " lighting. "
        \o "Color palette suggestion: "
        \o join(", ", SubSeq(visual.color_palette, 1,
                              IF Len(visual.color_palette) < 2
                              THEN Len(visual.color_palette) ELSE 2))
        \o ". "
        \o "Composition: " \o visual.composition_strategy \o ". "
        \o "Texture: " \o visual.texture_quality \o "."

\* enhance_prompt_with_cocktail whose suggestion starts with the base prompt
enhance_prompt_with_cocktail_prefixed(c, t, base_prompt, cocktail_name) ==
    LET e   == _ensure_cached(c, t)
        key == replace(replace(lower(cocktail_name), " ", "_"), "-", "_")
    IN  IF ~HasKey(e.cache, key) THEN Outcome(e, NotFound(cocktail_name))
        ELSE LET profile == Lookup(e.cache, key)
                 visual  == profile.visual_parameters
             IN  Outcome(e,
                   [original_prompt       |-> base_prompt,
                    cocktail              |-> profile.name,
                    color_direction       |-> visual.color_palette,
                    lighting_style        |-> visual.lighting_style,
                    mood_keywords         |-> mood_keywords(visual),
                    composition_guide     |-> visual.composition_strategy,
                    texture_notes         |-> visual.texture_quality,
                    temperature_vibe      |-> visual.temperature_vibe,
                    suggested_enhancement |->
                        base_prompt \o ". " \o suggested_enhancement(visual)])

enhance_prompt_with_cocktail(c, t, base_prompt, cocktail_name) ==
    LET e   == _ensure_cached(c, t)
        key == replace(replace(lower(cocktail_name), " ", "_"), "-", "_")
    IN  IF ~HasKey(e.cache, key) THEN Outcome(e, NotFound(cocktail_name))
        ELSE LET profile == Lookup(e.cache, key)
                 visual  == profile.visual_parameters
             IN  Outcome(e,
                   [original_prompt       |-> base_prompt,
                    cocktail              |-> profile.name,
                    color_direction       |-> visual.color_palette,
                    lighting_style        |-> visual.lighting_style,
                    mood_keywords         |-> mood_keywords(visual),
                    composition_guide     |-> visual.composition_strategy,
                    texture_notes         |-> visual.texture_quality,
                    temperature_vibe      |-> visual.temperature_vibe,
                    suggested_enhancement |-> suggested_enhancement(visual)])

\* The indices of the cached profiles whose primary flavor is flavor_lower,
\* in cache order
RECURSIVE matching_from(_, _, _)
matching_from(c, i, flavor_lower) ==
    IF i > Len(c) THEN <<>>
    ELSE (IF c[i][2].primary_flavor = flavor_lower
          THEN <<[name        |-> c[i][2].name,
                  id          |-> c[i][1],
                  description |-> c[i][2].description]>>
          ELSE <<>>)
         \o matching_from(c, i + 1, flavor_lower)

\* search_cocktails_by_flavor comparing with the query as it was typed
search_cocktails_by_flavor_as_typed(c, t, flavor) ==
    LET e        == _ensure_cached(c, t)
        matching == matching_from(e.cache, 1, flavor)
    IN  Outcome(e, [flavor  |-> lower(flavor),
                    matches |-> matching,
                    count   |-> Len(matching)])

search_cocktails_by_flavor(c, t, flavor) ==
    LET e            == _ensure_cached(c, t)
        flavor_lower == lower(flavor)
        matching     == matching_from(e.cache, 1, flavor_lower)
    IN  Outcome(e, [flavor  |-> flavor_lower,
                    matches |-> matching,
                    count   |-> Len(matching)])

\* get_spirit_warmth reading its table with the fallback of the warmth
\* morphism (5) instead of reporting an unrecognized spirit
get_spirit_warmth_default(c, spirit_name) ==
    LET spirit_lower == lower(spirit_name)
        warmth_map == << <<"rum", 9>>, <<"whiskey", 8>>, <<"cognac", 9>>,
                         <<"mezcal", 8>>, <<"tequila", 7>>, <<"gin", 5>>,
                         <<"vodka", 3>> >>
        e == [cache |-> c, scanned |-> FALSE, raised |-> FALSE]
        warmth == MapGet(warmth_map, spirit_lower, 5)
        interpretation ==
            IF warmth >= 8 THEN "very warm, golden, nostalgic"
            ELSE IF warmth >= 6 THEN "warm, moderate, balanced"
            ELSE "cool, crisp, clean"
    IN  Outcome(e, [spirit         |-> spirit_lower,
                    warmth_level   |-> warmth,
                    interpretation |-> interpretation])

\* get_spirit_warmth whose own table has drifted from the morphism's:
\* tequila 6 instead of 7
get_spirit_warmth_drifted(c, spirit_name) ==
    LET spirit_lower == lower(spirit_name)
        warmth_map == << <<"rum", 9>>, <<"whiskey", 8>>, <<"cognac", 9>>,
                         <<"mezcal", 8>>, <<"tequila", 6>>, <<"gin", 5>>,
                         <<"vodka", 3>> >>
        e == [cache |-> c, scanned |-> FALSE, raised |-> FALSE]
    IN  IF ~HasKey(warmth_map, spirit_lower)
        THEN Outcome(e, [error |-> <<"Spirit '", spirit_name,
                                     "' not recognized">>])
        ELSE LET warmth == Lookup(warmth_map, spirit_lower)
                 interpretation ==
                     IF warmth >= 8 THEN "very warm, golden, nostalgic"
                     ELSE IF warmth >= 6 THEN "warm, moderate, balanced"
                     ELSE "cool, crisp, clean"
             IN  Outcome(e, [spirit         |-> spirit_lower,
                             warmth_level   |-> warmth,
                             interpretation |-> interpretation])

\* get_spirit_warmth calling _ensure_cached() first, like the other tools
get_spirit_warmth_ensuring(c, spirit_name) ==
    LET spirit_lower == lower(spirit_name)
        warmth_map == << <<"rum", 9>>, <<"whiskey", 8>>, <<"cognac", 9>>,
                         <<"mezcal", 8>>, <<"tequila", 7>>, <<"gin", 5>>,
                         <<"vodka", 3>> >>
        e == _ensure_cached(c, COCKTAIL_TAXONOMY)
    IN  IF ~HasKey(warmth_map, spirit_lower)
        THEN Outcome(e, [error |-> <<"Spirit '", spirit_name,
                                     "' not recognized">>])
        ELSE LET warmth == Lookup(warmth_map, spirit_lower)
                 interpretation ==
                     IF warmth >= 8 THEN "very warm, golden, nostalgic"
                     ELSE IF warmth >= 6 THEN "warm, moderate, balanced"
                     ELSE "cool, crisp, clean"
             IN  Outcome(e, [spirit         |-> spirit_lower,
                             warmth_level   |-> warmth,
                             interpretation |-> interpretation])

get_spirit_warmth(c, spirit_name) ==
    LET spirit_lower == lower(spirit_name)
        warmth_map == << <<"rum", 9>>, <<"whiskey", 8>>, <<"cognac", 9>>,
                         <<"mezcal", 8>>, <<"tequila", 7>>, <<"gin", 5>>,
                         <<"vodka", 3>> >>
        e == [cache |-> c, scanned |-> FALSE, raised |-> FALSE]
    IN  IF ~HasKey(warmth_map, spirit_lower)
        THEN Outcome(e, [error |-> <<"Spirit '", spirit_name,
                                     "' not recognized">>])
        ELSE LET warmth == Lookup(warmth_map, spirit_lower)
                 interpretation ==
                     IF warmth >= 8 THEN "very warm, golden, nostalgic"
                     ELSE IF warmth >= 6 THEN "warm, moderate, balanced"
                     ELSE "cool, crisp, clean"
             IN  Outcome(e, [spirit         |-> spirit_lower,
                             warmth_level   |-> warmth,
                             interpretation |-> interpretation])

----------------------------------------------------------------------------
(* The server: the process starts with an empty cache; run as a script it  *)
(* fills the cache before serving; then tools are called one at a time.    *)

NoProbe == [fn |-> "none"]

Init ==
    /\ table \in Tables
    /\ _profile_cache = <<>>
    /\ scans = 0
    /\ op = "start"
    /\ arg = <<>>
    /\ result = [started |-> TRUE]
    /\ raised = FALSE
    /\ probe = NoProbe
    /\ derived = NoProbe
    /\ callers = <<>>
    /\ overlapped = FALSE

\* The state change every tool call makes.  A behaviour is cut off before it
\* would scan the table more than MaxScans times.
Call(name, a, r) ==
    /\ r.scanned => scans < MaxScans
    /\ op' = name
    /\ arg' = a
    /\ _profile_cache' = r.cache
    /\ scans' = scans + (IF r.scanned THEN 1 ELSE 0)
    /\ raised' = r.raised
    /\ result' = r.result
    /\ UNCHANGED <<table, probe, derived, callers, overlapped>>

\* if __name__ == "__main__": _ensure_cached() before mcp.run()
Main ==
    /\ op = "start"
    /\ LET e == _ensure_cached(_profile_cache, table)
       IN  /\ _profile_cache' = e.cache
           /\ scans' = scans + (IF e.scanned THEN 1 ELSE 0)
           /\ raised' = e.raised
           /\ result' = [loaded |-> Len(e.cache)]
    /\ op' = "main"
    /\ UNCHANGED <<table, arg, probe, derived, callers, overlapped>>

ListCocktails ==
    Call("list_cocktails", <<>>, list_cocktails(_profile_cache, table))

GetCocktailProfile ==
    \E n \in CocktailNames :
        Call("get_cocktail_profile", <<n>>,
             get_cocktail_profile(_profile_cache, table, n))

GetVisualParameters ==
    \E n \in CocktailNames :
        Call("get_visual_parameters", <<n>>,
             get_visual_parameters(_profile_cache, table, n))

EnhancePromptWithCocktail ==
    \E p \in BasePrompts, n \in CocktailNames :
        Call("enhance_prompt_with_cocktail", <<p, n>>,
             enhance_prompt_with_cocktail(_profile_cache, table, p, n))

SearchCocktailsByFlavor ==
    \E f \in FlavorQueries :
        Call("search_cocktails_by_flavor", <<f>>,
             search_cocktails_by_flavor(_profile_cache, table, f))

GetSpiritWarmth ==
    \E s \in SpiritQueries :
        Call("get_spirit_warmth", <<s>>, get_spirit_warmth(_profile_cache, s))

Next ==
    \/ Main
    \/ ListCocktails
    \/ GetCocktailProfile
    \/ GetVisualParameters
    \/ EnhancePromptWithCocktail
    \/ SearchCocktailsByFlavor
    \/ GetSpiritWarmth

Spec == Init /\ [][Next]_vars

----------------------------------------------------------------------------
(* The morphisms on their own: a probe is drawn, the morphism it names is  *)
(* applied to it.                                                          *)

LightingProbes ==
    {[fn |-> "lighting", warmth |-> w, complexity |-> c] :
        w \in 0..MaxScore, c \in Members(ComplexityLevel)}

TextureProbes ==
    {[fn |-> "texture", has_cream |-> a, has_ice |-> b, is_effervescent |-> e] :
        a \in BOOLEAN, b \in BOOLEAN, e \in BOOLEAN}

MoodProbes ==
    {[fn |-> "moods", richness |-> r, complexity |-> c, sweetness |-> s] :
        r \in 0..MaxScore, c \in Members(ComplexityLevel), s \in 0..MaxScore}

TemperatureProbes == {[fn |-> "temperature", warmth |-> w] : w \in 0..MaxScore}

BuildProbes ==
    {[fn |-> "build", spirit |-> sp, primary_flavor |-> f, complexity |-> c,
      bitterness |-> b, sweetness |-> s, richness |-> r] :
        sp \in Members(SpiritBase), f \in {"bitter", "sweet"},
        c \in Members(ComplexityLevel), b \in {0, MaxScore},
        s \in {1, 7}, r \in {2, 8}}

\* Labels handed to the table-driven mappings: every enum value, and
\* strings that no table holds
Labels ==
    Members(SpiritBase) \cup Members(FlavorType) \cup Members(ComplexityLevel)
        \cup {"absinthe", "umami", "baroque", "RUM", "Sweet", ""}

TableProbes ==
    {[fn |-> f, label |-> l] :
        f \in {"warmth", "color", "mood", "composition"}, l \in Labels}

\* Raw records handed to cocktail_to_profile: labels in several letter
\* cases, labels no enum holds, a record without "complexity"
ConvertSpirits ==
    {"rum", "Rum", "VODKA", "absinthe", "vod" \o KELVIN_SIGN \o "a"}

ConvertFlavors ==
    {"sour", "Sour", "SPIRIT_FORWARD", "spirit forward", "umami",
     LONG_S \o "our", "b" \o DOTLESS_I \o "tter",
     "smo" \o KELVIN_SIGN \o "y"}

ConvertComplexities == {"simple", "Complex", "baroque"}

ConvertRecords ==
    {[name |-> "Probe", spirit_base |-> sp, primary_flavor |-> f] :
        sp \in ConvertSpirits, f \in ConvertFlavors}
    \cup
    {[name |-> "Probe", spirit_base |-> sp, primary_flavor |-> f,
      complexity |-> c] :
        sp \in ConvertSpirits, f \in ConvertFlavors,
        c \in ConvertComplexities}

\* Raw records with their own scores, one family per spirit and complexity
ScoredRecords ==
    {[name |-> "Scored", spirit_base |-> sp, primary_flavor |-> "herbal",
      complexity |-> c, bitterness |-> b, sweetness |-> s, richness |-> r] :
        sp \in Members(SpiritBase), c \in {"simple", "complex"},
        b \in {0, MaxScore}, s \in {1, 7}, r \in {2, 8}}

\* Raw records holding the three required keys and any subset of the
\* optional ones, each optional key with a value that is not its default
OptionalValues ==
    [complexity      |-> "complex",
     bitterness      |-> 8,
     sweetness       |-> 7,
     richness        |-> 9,
     color_palette   |-> <<"#222222", "#111111", "#333333">>,
     has_cream       |-> TRUE,
     has_ice         |-> FALSE,
     is_effervescent |-> TRUE,
     description     |-> "Gin, lemon, soda."]

RequiredValues ==
    [name |-> "Partial", spirit_base |-> "gin", primary_flavor |-> "sour"]

PartialRecords ==
    {[k \in DOMAIN RequiredValues \cup present |->
         IF k \in present THEN OptionalValues[k] ELSE RequiredValues[k]] :
        present \in SUBSET DOMAIN OptionalValues}

ConvertProbes ==
    {[fn |-> "convert", data |-> d] :
        d \in ConvertRecords \cup ScoredRecords \cup PartialRecords}

\* Spirit names handed to get_spirit_warmth: the seven labels as written,
\* capitalized and in capitals, and names the table does not hold
SpiritNames ==
    Members(SpiritBase) \cup {upper(s) : s \in Members(SpiritBase)}
        \cup {upper(SubSeq(s, 1, 1)) \o SubSeq(s, 2, Len(s)) :
                  s \in Members(SpiritBase)}
        \cup {"absinthe", "bourbon", "rum ", "dark rum", ""}
        \cup {"vod" \o KELVIN_SIGN \o "a", "whis" \o KELVIN_SIGN \o "ey",
              "g" \o DOTLESS_I \o "n", "G" \o CAPITAL_I_WITH_DOT \o "N",
              "CAFÉ"}

SpiritProbes == {[fn |-> "spirit_warmth", name |-> n] : n \in SpiritNames}

Probes ==
    LightingProbes \cup TextureProbes \cup MoodProbes \cup TemperatureProbes
        \cup BuildProbes \cup TableProbes \cup ConvertProbes
        \cup SpiritProbes

MorphInit ==
    /\ table = COCKTAIL_TAXONOMY
    /\ _profile_cache = <<>>
    /\ scans = 0
    /\ op = "start"
    /\ arg = <<>>
    /\ result = [started |-> TRUE]
    /\ raised = FALSE
    /\ probe \in Probes
    /\ derived = NoProbe
    /\ callers = <<>>
    /\ overlapped = FALSE

Apply(fn, out) ==
    /\ probe.fn = fn
    /\ derived = NoProbe
    /\ derived' = [fn |-> fn, out |-> out]
    /\ UNCHANGED <<table, _profile_cache, scans, op, arg, result, raised, probe,
                   callers, overlapped>>

ApplyLighting ==
    /\ probe.fn = "lighting"
    /\ Apply("lighting",
             warmth_and_complexity_to_lighting(probe.warmth, probe.complexity))

ApplyTexture ==
    /\ probe.fn = "texture"
    /\ Apply("texture",
             texture_from_components(probe.has_cream, probe.has_ice,
                                     probe.is_effervescent))

ApplyMoods ==
    /\ probe.fn = "moods"
    /\ Apply("moods",
             secondary_moods(probe.richness, probe.complexity, probe.sweetness))

ApplyTemperature ==
    /\ probe.fn = "temperature"
    /\ Apply("temperature", temperature_vibe(probe.warmth))

ApplyBuild ==
    /\ probe.fn = "build"
    /\ Apply("build",
             build_visual_parameters(probe.spirit, probe.primary_flavor,
                                     probe.complexity, probe.bitterness,
                                     probe.sweetness, probe.richness, <<>>,
                                     FALSE, TRUE, FALSE))

ApplyWarmth ==
    /\ probe.fn = "warmth"
    /\ Apply("warmth", spirit_base_to_warmth(probe.label))

ApplyColor ==
    /\ probe.fn = "color"
    /\ Apply("color", spirit_base_to_color_category(probe.label))

ApplyMood ==
    /\ probe.fn = "mood"
    /\ Apply("mood", flavor_to_mood(probe.label))

ApplyComposition ==
    /\ probe.fn = "composition"
    /\ Apply("composition", complexity_to_composition(probe.label))

\* cocktail_to_profile(data): the exception it raises, or the profile
ApplyConvert ==
    /\ probe.fn = "convert"
    /\ LET e == cocktail_to_profile_error(probe.data)
       IN  Apply("convert",
                 IF e = "none"
                 THEN [error |-> e, profile |-> cocktail_to_profile(probe.data)]
                 ELSE [error |-> e])

ApplySpiritWarmth ==
    /\ probe.fn = "spirit_warmth"
    /\ Apply("spirit_warmth", get_spirit_warmth(<<>>, probe.name).result)

MorphNext ==
    \/ ApplyLighting
    \/ ApplyTexture
    \/ ApplyMoods
    \/ ApplyTemperature
    \/ ApplyBuild
    \/ ApplyWarmth
    \/ ApplyColor
    \/ ApplyMood
    \/ ApplyComposition
    \/ ApplyConvert
    \/ ApplySpiritWarmth

MorphSpec == MorphInit /\ [][MorphNext]_vars

----------------------------------------------------------------------------
(* A multi-threaded host: each caller makes one query, get_cocktail_profile *)
(* or list_cocktails.  Nothing in _ensure_cached takes a lock, so callers   *)
(* interleave at its statements: the emptiness test, then one loop          *)
(* iteration at a time, each ending in at most one store into the shared    *)
(* cache.  The loop of list_cocktails over _profile_cache.items() is        *)
(* interruptible too: a dict iterator remembers the size of the dict at its *)
(* creation and raises RuntimeError at its next step once the size differs. *)

ConcTools == {"get_cocktail_profile", "list_cocktails"}

ConcNames == {"mai-tai"}

IdleCaller ==
    [pc |-> "idle", tool |-> "", name |-> "", i |-> 0, saw_empty |-> FALSE,
     stored |-> 0, size |-> 0]

InQuery(th) == callers[th].pc \in {"check", "scan", "query", "listing"}

ConcInit ==
    /\ table \in Tables
    /\ _profile_cache = <<>>
    /\ scans = 0
    /\ op = "start"
    /\ arg = <<>>
    /\ result = [started |-> TRUE]
    /\ raised = FALSE
    /\ probe = NoProbe
    /\ derived = NoProbe
    /\ callers = [th \in 1..MaxThreads |-> IdleCaller]
    /\ overlapped = FALSE

\* the host hands a get_cocktail_profile(n) or a list_cocktails() request
\* to thread th
Enter(th) ==
    /\ callers[th].pc = "idle"
    /\ \/ \E n \in ConcNames :
             callers' = [callers EXCEPT ![th].pc = "check",
                                        ![th].tool = "get_cocktail_profile",
                                        ![th].name = n]
       \/ callers' = [callers EXCEPT ![th].pc = "check",
                                     ![th].tool = "list_cocktails"]
    /\ overlapped' = (overlapped
                         \/ \E o \in 1..MaxThreads : o # th /\ InQuery(o))
    /\ UNCHANGED <<table, _profile_cache, scans, op, arg, result, raised,
                   probe, derived>>

\* "if not _profile_cache:" as thread th evaluates it
EnsureCheck(th) ==
    /\ callers[th].pc = "check"
    /\ IF cache_is_empty(_profile_cache)
       THEN /\ callers' = [callers EXCEPT
                             ![th].pc = IF Len(table) = 0 THEN "query"
                                        ELSE "scan",
                             ![th].i = 1,
                             ![th].saw_empty = TRUE]
            /\ scans' = scans + 1
       ELSE /\ callers' = [callers EXCEPT ![th].pc = "query"]
            /\ scans' = scans
    /\ UNCHANGED <<table, _profile_cache, op, arg, result, raised, probe,
                   derived, overlapped>>

\* one iteration of the loop over COCKTAIL_TAXONOMY.items() in thread th
ScanStep(th) ==
    /\ callers[th].pc = "scan"
    /\ LET i         == callers[th].i
           converts  == cocktail_to_profile_error(table[i][2]) = "none"
       IN  /\ _profile_cache' =
                  IF converts
                  THEN DictSet(_profile_cache, table[i][1],
                               cocktail_to_profile(table[i][2]))
                  ELSE _profile_cache
           /\ callers' = [callers EXCEPT
                            ![th].pc = IF i = Len(table) THEN "query"
                                       ELSE "scan",
                            ![th].i = i + 1,
                            ![th].stored = IF converts THEN @ + 1 ELSE @]
    /\ UNCHANGED <<table, scans, op, arg, result, raised, probe, derived,
                   overlapped>>

\* the rest of get_cocktail_profile in thread th, whose arguments and locals
\* go with its return.  Its _ensure_cached has
\* returned: the cache is non-empty, or no record of the table converts.
Finish(th) ==
    /\ callers[th].pc = "query"
    /\ callers[th].tool = "get_cocktail_profile"
    /\ op' = "get_cocktail_profile"
    /\ arg' = <<callers[th].name>>
    /\ result' = get_cocktail_profile(_profile_cache, table,
                                      callers[th].name).result
    /\ raised' = FALSE
    /\ callers' = [callers EXCEPT ![th].pc = "done", ![th].tool = "",
                                  ![th].name = ""]
    /\ UNCHANGED <<table, _profile_cache, scans, probe, derived, overlapped>>

\* list_cocktails in thread th reaches its loop: _profile_cache.items()
\* is asked for an iterator, which notes the size of the dict
ListBegin(th) ==
    /\ callers[th].pc = "query"
    /\ callers[th].tool = "list_cocktails"
    /\ callers' = [callers EXCEPT ![th].pc = "listing",
                                  ![th].size = Len(_profile_cache)]
    /\ UNCHANGED <<table, _profile_cache, scans, op, arg, result, raised,
                   probe, derived, overlapped>>

\* the loop of list_cocktails in thread th comes to its end.  The cache
\* only grows, and storing under a key it holds keeps its size: if the size
\* is the one the iterator noted, the loop has seen the cache as it is now;
\* if not, a step of the iterator has raised RuntimeError.
ListEnd(th) ==
    /\ callers[th].pc = "listing"
    /\ op' = "list_cocktails"
    /\ arg' = <<>>
    /\ IF Len(_profile_cache) = callers[th].size
       THEN /\ result' = list_cocktails(_profile_cache, table).result
            /\ raised' = FALSE
       ELSE /\ result' = [exception |-> TRUE]
            /\ raised' = TRUE
    /\ callers' = [callers EXCEPT ![th].pc = "done", ![th].tool = "",
                                  ![th].size = 0]
    /\ UNCHANGED <<table, _profile_cache, scans, probe, derived, overlapped>>

ConcNext ==
    \E th \in 1..MaxThreads :
        \/ Enter(th)
        \/ EnsureCheck(th)
        \/ ScanStep(th)
        \/ Finish(th)
        \/ ListBegin(th)
        \/ ListEnd(th)

ConcSpec == ConcInit /\ [][ConcNext]_vars

----------------------------------------------------------------------------
(* The older monolithic interface (server-old.py): one flat taxonomy of     *)
(* ready-made visual fields and tools that read it directly, with no enum,  *)
(* no conversion and no cache.                                              *)

\* COCKTAIL_TAXONOMY of server-old.py
OLD_COCKTAIL_TAXONOMY ==
  <<
    <<"negroni",
        [family |-> "spirit_forward",
         base_spirit |-> "gin",
         color_palette |-> <<"#8B1A1A", "#D2691E", "#FFA500">>,
         color_description |-> "bold triadic red-orange-amber",
         lighting |-> "warm side-lit, Italian golden hour, amber backlight",
         mood |-> "bitter sophistication, aperitivo elegance, modernist simplicity",
         composition |-> "balanced triadic, architectural precision, geometric",
         texture |-> "smooth with orange oil sheen, glass clarity, ice refraction",
         cultural_context |-> "Italian design sensibility, mid-century modernism",
         temporal_association |-> "pre-dinner, golden hour, 6pm ritual",
         technique |-> "stirred - smooth gradients, elegant composure"]>>,
    <<"martini",
        [family |-> "spirit_forward",
         base_spirit |-> "gin_or_vodka",
         color_palette |-> <<"#F5F5F5", "#E8E8E8", "#C0C0C0">>,
         color_description |-> "crystalline clear to pale silver",
         lighting |-> "sharp key light, Art Deco chrome reflections, cold clarity",
         mood |-> "geometric precision, sophisticated restraint, timeless elegance",
         composition |-> "minimalist vertical, conical symmetry, negative space mastery",
         texture |-> "ice-cold silky, pristine clarity, condensation droplets",
         cultural_context |-> "Art Deco luxury, film noir mystique, James Bond cool",
         temporal_association |-> "evening sophistication, cocktail hour proper",
         technique |-> "stirred - crystalline perfection, no bubbles"]>>,
    <<"mai_tai",
        [family |-> "tiki",
         base_spirit |-> "rum",
         color_palette |-> <<"#FF6B35", "#F7931E", "#8B4513", "#00A86B">>,
         color_description |-> "tropical sunset gradient with mint green accents",
         lighting |-> "vintage tiki torch glow, warm tropical sunset, bamboo-filtered light",
         mood |-> "escapist maximalism, mid-century exotica, playful abundance",
         composition |-> "layered complexity, garnish abundance, vertical drama",
         texture |-> "crushed ice shimmer, orgeat creaminess, multiple textures",
         cultural_context |-> "Polynesian pop, 1950s escapism, Don the Beachcomber mystique",
         temporal_association |-> "vacation mode, eternal summer, 5 o'clock somewhere",
         technique |-> "shaken then built - dynamic layers, textured ice"]>>,
    <<"old_fashioned",
        [family |-> "spirit_forward",
         base_spirit |-> "whiskey",
         color_palette |-> <<"#8B4513", "#D2691E", "#CD853F">>,
         color_description |-> "warm amber to deep mahogany",
         lighting |-> "warm intimate spotlight, leather-bound library light, single source dramatic",
         mood |-> "masculine refinement, contemplative sophistication, timeless tradition",
         composition |-> "minimalist centered, single large cube as negative space, classic balance",
         texture |-> "smooth whiskey viscosity, large ice cube clarity, sugar grain sparkle",
         cultural_context |-> "gentleman's club, craft cocktail revival, bourbon heritage",
         temporal_association |-> "after-work unwind, winter evening, slow contemplation",
         technique |-> "stirred - deliberate slow integration, single large cube"]>>,
    <<"aperol_spritz",
        [family |-> "spritz",
         base_spirit |-> "aperol",
         color_palette |-> <<"#FF4500", "#FF6347", "#FFA07A", "#FFD700">>,
         color_description |-> "sunset orange gradient with golden effervescence",
         lighting |-> "soft diffused golden hour, piazza afternoon glow, sparkling highlights",
         mood |-> "dolce vita ease, effervescent joy, social lightness",
         composition |-> "bubbly vertical movement, casual asymmetry, orange slice geometry",
         texture |-> "champagne bubble streams, prosecco effervescence, ice dilution",
         cultural_context |-> "Italian aperitivo culture, European cafe society, Instagram aesthetic",
         temporal_association |-> "afternoon pre-dinner, summer terrace, 4-6pm social hour",
         technique |-> "built directly - casual construction, bubble preservation"]>>,
    <<"espresso_martini",
        [family |-> "after_dinner",
         base_spirit |-> "vodka",
         color_palette |-> <<"#2C1810", "#3E2723", "#EFEBE9">>,
         color_description |-> "dark espresso with creamy foam crown",
         lighting |-> "high contrast dramatic, nightclub spotlight, foam highlight",
         mood |-> "caffeinated energy, modern nightlife, sophisticated hedonism",
         composition |-> "high contrast zones, foam crown as focal point, three-bean symmetry",
         texture |-> "velvety crema, syrupy body, silky foam",
         cultural_context |-> "1990s London revival, nightlife glamour, coffee culture fusion",
         temporal_association |-> "late night energy, dessert replacement, 11pm second wind",
         technique |-> "shaken hard - espresso crema, frothy crown"]>>,
    <<"mojito",
        [family |-> "highball",
         base_spirit |-> "rum",
         color_palette |-> <<"#98FF98", "#FFFFFF", "#F0FFF0", "#7CFC00">>,
         color_description |-> "fresh mint green with sparkling clarity",
         lighting |-> "bright natural daylight, Caribbean sunshine, crystalline clarity",
         mood |-> "refreshing vitality, tropical freshness, casual beachside ease",
         composition |-> "vertical highball, muddled texture at base, ice and mint throughout",
         texture |-> "crushed mint leaves, soda fizz, granulated sugar sparkle",
         cultural_context |-> "Havana heritage, beach bar staple, Ernest Hemingway legend",
         temporal_association |-> "hot afternoon refreshment, poolside leisure, summer peak",
         technique |-> "muddled - textured organic elements, built with soda"]>>,
    <<"margarita",
        [family |-> "sour",
         base_spirit |-> "tequila",
         color_palette |-> <<"#FFFACD", "#90EE90", "#FFFFFF">>,
         color_description |-> "pale lime yellow-green with salt crystal rim",
         lighting |-> "bright Mexican sunshine, agave field light, salt crystal sparkle",
         mood |-> "festive celebration, tequila confidence, citrus brightness",
         composition |-> "wide coupe or rocks, salt rim as frame, lime wheel accent",
         texture |-> "coarse salt crystals, icy dilution, citrus pulp",
         cultural_context |-> "Mexican tradition, Tex-Mex Americana, vacation celebration",
         temporal_association |-> "fiesta mood, summer evening, taco pairing",
         technique |-> "shaken - frothy integration, salt rim ritual"]>>,
    <<"manhattan",
        [family |-> "spirit_forward",
         base_spirit |-> "whiskey",
         color_palette |-> <<"#8B0000", "#A52A2A", "#CD5C5C">>,
         color_description |-> "deep ruby red with vermouth richness",
         lighting |-> "warm amber bar light, wood-paneled intimacy, cherry glow",
         mood |-> "New York sophistication, pre-Prohibition elegance, cocktail formality",
         composition |-> "coupe or Nick & Nora elegance, cherry as jewel focal point",
         texture |-> "silky vermouth integration, maraschino syrup viscosity",
         cultural_context |-> "Manhattan club society, classic cocktail canon, Mad Men aesthetic",
         temporal_association |-> "pre-dinner elegant, winter warmth, formal evening",
         technique |-> "stirred - perfect integration, cherry garnish"]>>,
    <<"penicillin",
        [family |-> "modern_classic",
         base_spirit |-> "scotch",
         color_palette |-> <<"#F4E4C1", "#FFD700", "#8B7355">>,
         color_description |-> "golden honey with smoky overlay",
         lighting |-> "warm honey glow with mysterious smoky haze",
         mood |-> "craft cocktail innovation, medicinal intrigue, smoky sophistication",
         composition |-> "rocks glass grounded, smoke wisp drama, ginger spice texture",
         texture |-> "honey viscosity, ginger pulp, Islay smoke",
         cultural_context |-> "2000s craft cocktail movement, Sam Ross legend, modern canon",
         temporal_association |-> "winter warmer, cold remedy mystique, evening contemplation",
         technique |-> "shaken with float - layered smoke drama"]>>,
    <<"daiquiri",
        [family |-> "sour",
         base_spirit |-> "rum",
         color_palette |-> <<"#FFFACD", "#F0E68C", "#FFFFFF">>,
         color_description |-> "pale lime clarity, crystalline simplicity",
         lighting |-> "clean bright light, Caribbean clarity, lime zest highlights",
         mood |-> "pure simplicity, rum authenticity, beach bar stripped-down",
         composition |-> "minimalist coupe, three-ingredient honesty, lime wheel elegance",
         texture |-> "silky shaken integration, slight foam cap, pure liquid",
         cultural_context |-> "Hemingway Cuba, classic simplicity, anti-frozen backlash",
         temporal_association |-> "hot afternoon perfection, beach sunset, summer purity",
         technique |-> "shaken - frothy integration, elegant simplicity"]>>,
    <<"boulevardier",
        [family |-> "spirit_forward",
         base_spirit |-> "whiskey",
         color_palette |-> <<"#8B0000", "#A0522D", "#CD853F">>,
         color_description |-> "deep burgundy red with bourbon warmth",
         lighting |-> "warm bistro light, Parisian cafe glow, vermouth sheen",
         mood |-> "Continental sophistication, American-in-Paris mystique, bitter elegance",
         composition |-> "Nick & Nora or coupe, orange twist as focal point",
         texture |-> "bourbon warmth, Campari bitter coating, vermouth silk",
         cultural_context |-> "1920s Paris expatriate, Negroni's bourbon cousin, literary sophistication",
         temporal_association |-> "pre-dinner Parisian, autumn evening, intellectual conversation",
         technique |-> "stirred - smooth integration, orange oils"]>>,
    <<"aviation",
        [family |-> "floral_sour",
         base_spirit |-> "gin",
         color_palette |-> <<"#E6E6FA", "#DDA0DD", "#F0E68C">>,
         color_description |-> "pale sky blue-violet from crème de violette",
         lighting |-> "soft diffused ethereal, cloud-filtered light, lavender haze",
         mood |-> "romantic nostalgia, pre-Prohibition revival, floral delicacy",
         composition |-> "coupe elegance, cherry floating like cloud, pastel dream",
         texture |-> "silky maraschino luxe, gin botanical, violet perfume",
         cultural_context |-> "Golden Age aviation romance, craft cocktail archeology, violet mystique",
         temporal_association |-> "romantic evening, spring celebration, vintage fantasy",
         technique |-> "shaken - delicate frothy integration"]>>,
    <<"pisco_sour",
        [family |-> "sour",
         base_spirit |-> "pisco",
         color_palette |-> <<"#FFFACD", "#FFFFFF", "#8B4513">>,
         color_description |-> "pale yellow with pure white egg foam crown",
         lighting |-> "Andean sunlight, foam highlight, bitters dots as focal points",
         mood |-> "Peruvian pride, South American sophistication, foam artistry",
         composition |-> "coupe with foam crown, Angostura bitters dots as design",
         texture |-> "silky egg white foam, pisco grape spirit, lime tartness",
         cultural_context |-> "Peruvian national drink, Chilean rivalry, Lima cocktail culture",
         temporal_association |-> "afternoon sophistication, ceviche pairing, celebration",
         technique |-> "dry shake then wet shake - meringue foam perfection"]>>,
    <<"corpse_reviver_2",
        [family |-> "floral_sour",
         base_spirit |-> "gin",
         color_palette |-> <<"#FFFACD", "#F0E68C", "#98FB98">>,
         color_description |-> "pale yellow-green with absinthe mist",
         lighting |-> "ethereal morning light, absinthe louche, hair-of-the-dog clarity",
         mood |-> "morning after mystique, restorative ritual, equal parts balance",
         composition |-> "coupe precision, four equal parts harmony, absinthe rinse haze",
         texture |-> "Lillet silk, absinthe anise coating, Cointreau citrus oil",
         cultural_context |-> "Savoy cocktail canon, hangover cure legend, Harry Craddock mystique",
         temporal_association |-> "brunch revival, morning restoration, hair of the dog",
         technique |-> "shaken with absinthe rinse - louche mist drama"]>>,
    <<"last_word",
        [family |-> "floral_sour",
         base_spirit |-> "gin",
         color_palette |-> <<"#90EE90", "#98FB98", "#F0E68C">>,
         color_description |-> "pale chartreuse green, equal parts balance",
         lighting |-> "mysterious green glow, herbal liqueur luminescence, botanical clarity",
         mood |-> "Prohibition mystique, equal parts egalitarian, craft cocktail resurrection",
         composition |-> "coupe symmetry, lime wheel focus, green liqueur glow",
         texture |-> "Chartreuse herbal viscosity, Maraschino luxe, lime tartness",
         cultural_context |-> "Detroit Athletic Club origin, 2000s craft revival, equal parts philosophy",
         temporal_association |-> "sophisticated evening, herbal complexity, balanced contemplation",
         technique |-> "shaken - equal parts precision, balanced integration"]>>,
    <<"dark_and_stormy",
        [family |-> "highball",
         base_spirit |-> "rum",
         color_palette |-> <<"#2C1810", "#8B4513", "#F4E4C1">>,
         color_description |-> "dark rum depths with ginger beer foam crown",
         lighting |-> "stormy dramatic contrast, dark base with bright foam highlights",
         mood |-> "Caribbean tempest, Bermuda tradition, spicy warmth",
         composition |-> "highball verticality, dark rum base with ginger foam storm on top",
         texture |-> "dark rum richness, ginger beer spice fizz, lime oil",
         cultural_context |-> "Bermuda national drink, Gosling's trademark, tropical storm metaphor",
         temporal_association |-> "hot afternoon cooling, tropical vacation, beach bar staple",
         technique |-> "built - dramatic float, no stir preserves layers"]>>,
    <<"sazerac",
        [family |-> "spirit_forward",
         base_spirit |-> "rye",
         color_palette |-> <<"#8B4513", "#D2691E", "#F5F5DC">>,
         color_description |-> "amber rye with absinthe haze, lemon oil mist",
         lighting |-> "warm New Orleans gas lamp, absinthe mist glow, lemon oil atomization",
         mood |-> "New Orleans mystique, Creole sophistication, ritual precision",
         composition |-> "rocks glass ceremony, absinthe rinse ritual, lemon peel twist drama",
         texture |-> "rye spice warmth, absinthe anise coating, sugar cube integration",
         cultural_context |-> "New Orleans oldest cocktail claim, Creole heritage, French Quarter ritual",
         temporal_association |-> "evening ceremony, contemplative sipping, bourbon street sophistication",
         technique |-> "stirred with absinthe rinse - ritual performance, lemon oils only"]>>,
    <<"bramble",
        [family |-> "sour",
         base_spirit |-> "gin",
         color_palette |-> <<"#FFFACD", "#8B008B", "#C71585">>,
         color_description |-> "pale lemon with dark blackberry liqueur drizzle",
         lighting |-> "British summer garden light, berry stain drama, crushed ice sparkle",
         mood |-> "modern British classic, blackberry hedgerow, garden party elegance",
         composition |-> "rocks glass with crushed ice, liqueur drizzle as visual drama",
         texture |-> "crushed ice pebbles, blackberry syrup drizzle, lemon tartness",
         cultural_context |-> "Dick Bradsell invention, 1980s British cocktail renaissance, hedgerow foraging",
         temporal_association |-> "summer garden party, British countryside, afternoon refreshment",
         technique |-> "built on crushed ice - liqueur drizzle for visual effect"]>>,
    <<"vieux_carre",
        [family |-> "spirit_forward",
         base_spirit |-> "rye_cognac",
         color_palette |-> <<"#8B0000", "#8B4513", "#A52A2A">>,
         color_description |-> "deep burgundy-amber blend, cognac and rye marriage",
         lighting |-> "French Quarter dim lamp light, carousel bar glow, Benedictine sheen",
         mood |-> "French Quarter decadence, Creole complexity, equal parts sophistication",
         composition |-> "rocks glass grounded, lemon twist elegance, layered spirits",
         texture |-> "cognac silk with rye spice, Benedictine herbal coating, bitters complexity",
         cultural_context |-> "Hotel Monteleone legend, New Orleans French influence, carousel bar mystique",
         temporal_association |-> "late evening sophistication, winter warmth, contemplative nightcap",
         technique |-> "stirred - complex spirit integration, lemon twist"]>>
  >>

\* FAMILY_CHARACTERISTICS of server-old.py
FAMILY_CHARACTERISTICS ==
  <<
    <<"spirit_forward",
        [description |-> "Minimal dilution, spirit-showcasing, sophisticated simplicity",
         lighting |-> "warm intimate, dramatic single source, spirit color glow",
         mood |-> "contemplative elegance, adult sophistication, slow sipping",
         composition |-> "minimalist, centered focus, negative space mastery"]>>,
    <<"sour",
        [description |-> "Citrus-balanced, refreshing tartness, foam cap potential",
         lighting |-> "bright citrus highlights, foam crown spotlight, clean clarity",
         mood |-> "refreshing vitality, balanced sophistication, citrus brightness",
         composition |-> "coupe elegance or rocks glass, foam/ice as texture"]>>,
    <<"tiki",
        [description |-> "Tropical maximalism, layered complexity, garnish abundance",
         lighting |-> "warm tiki torch glow, tropical sunset, bamboo-filtered",
         mood |-> "escapist fantasy, playful exoticism, vacation mindset",
         composition |-> "vertical drama, layered colors, garnish explosion"]>>,
    <<"highball",
        [description |-> "Tall and refreshing, effervescent, casual elegance",
         lighting |-> "bright natural or casual bar light, bubble highlights, ice sparkle",
         mood |-> "casual refreshment, social ease, approachable sophistication",
         composition |-> "vertical glass, ice and carbonation texture, simple garnish"]>>,
    <<"after_dinner",
        [description |-> "Rich and indulgent, dessert-like, coffee or cream elements",
         lighting |-> "dramatic contrast, spotlight on crema/foam, nightlife glow",
         mood |-> "indulgent sophistication, late night energy, dessert replacement",
         composition |-> "high contrast zones, foam or cream as focal point"]>>
  >>

\* str < str as Python compares: by code point, a proper prefix first.  The
\* characters are ranked by their place in CodePointOrder.
CodePointOrder ==
    " #'-0123456789ABCDEFGHIJKLMNOPQRSTUVWXYZ_abcdefghijklmnopqrstuvwxyz"

CodeRank ==
    [c \in {CharAt(CodePointOrder, i) : i \in 1..Len(CodePointOrder)} |->
        CHOOSE i \in 1..Len(CodePointOrder) : CharAt(CodePointOrder, i) = c]

RECURSIVE str_less(_, _)
str_less(a, b) ==
    IF Len(b) = 0 THEN FALSE
    ELSE IF Len(a) = 0 THEN TRUE
    ELSE IF CharAt(a, 1) = CharAt(b, 1)
         THEN str_less(SubSeq(a, 2, Len(a)), SubSeq(b, 2, Len(b)))
    ELSE CodeRank[CharAt(a, 1)] < CodeRank[CharAt(b, 1)]

\* sorted(keys) for a sequence of strings
RECURSIVE sorted(_)
sorted(keys) ==
    IF Len(keys) = 0 THEN <<>>
    ELSE LET first == Head(keys)
             others == sorted(Tail(keys))
         IN  SelectSeq(others, LAMBDA k : str_less(k, first))
                 \o <<first>>
                 \o SelectSeq(others, LAMBDA k : ~str_less(k, first))

\* {} : the dict without keys
EmptyDict == <<>>

\* enhance_with_cocktail_aesthetic on table t.  No record of the table is
\* empty, so "not cocktail_data" holds exactly when the key is missing.
enhance_with_cocktail_aesthetic(t, base_prompt, cocktail) ==
    LET cocktail_key == replace(replace(lower(cocktail), " ", "_"), "-", "_")
    IN  IF ~HasKey(t, cocktail_key)
        THEN [error |-> "Cocktail '" \o cocktail \o "' not found in taxonomy",
              available_cocktails |-> join(", ", sorted(Keys(t))),
              suggestion |-> "Try one of the available cocktails or use list_available_cocktails tool"]
        ELSE LET cocktail_data == Lookup(t, cocktail_key)
             IN  [cocktail_name |-> cocktail,
                  base_prompt |-> base_prompt,
                  visual_parameters |->
                     [color_palette        |-> cocktail_data.color_palette,
                      color_description    |-> cocktail_data.color_description,
                      lighting_style       |-> cocktail_data.lighting,
                      mood_keywords        |-> cocktail_data.mood,
                      composition_guide    |-> cocktail_data.composition,
                      texture_notes        |-> cocktail_data.texture,
                      cultural_context     |-> cocktail_data.cultural_context,
                      temporal_association |->
                          cocktail_data.temporal_association,
                      technique_influence  |-> cocktail_data.technique],
                  cocktail_metadata |->
                     [family      |-> cocktail_data.family,
                      base_spirit |-> cocktail_data.base_spirit],
                  synthesis_instructions |->
                     [approach |-> "Weave cocktail aesthetics naturally into the base prompt",
                      priority |-> "Color palette and lighting should be primary, mood and composition secondary",
                      avoid    |-> "Don't literally mention the cocktail unless contextually appropriate",
                      style    |-> "Create vivid, sensory-rich description that captures cocktail essence visually"]]

\* get_cocktail_details listing the available keys in table order
get_cocktail_details_unsorted(t, cocktail) ==
    LET cocktail_key == replace(replace(lower(cocktail), " ", "_"), "-", "_")
    IN  IF ~HasKey(t, cocktail_key)
        THEN [error |-> "Cocktail '" \o cocktail \o "' not found",
              available_cocktails |-> join(", ", Keys(t))]
        ELSE LET cocktail_data == Lookup(t, cocktail_key)
             IN  [cocktail_name |-> cocktail,
                  profile |-> cocktail_data,
                  family_characteristics |->
                     MapGet(FAMILY_CHARACTERISTICS, cocktail_data.family,
                            EmptyDict)]

get_cocktail_details(t, cocktail) ==
    LET cocktail_key == replace(replace(lower(cocktail), " ", "_"), "-", "_")
    IN  IF ~HasKey(t, cocktail_key)
        THEN [error |-> "Cocktail '" \o cocktail \o "' not found",
              available_cocktails |-> join(", ", sorted(Keys(t)))]
        ELSE LET cocktail_data == Lookup(t, cocktail_key)
             IN  [cocktail_name |-> cocktail,
                  profile |-> cocktail_data,
                  family_characteristics |->
                     MapGet(FAMILY_CHARACTERISTICS, cocktail_data.family,
                            EmptyDict)]

\* the cocktails of `family` among items i.. of table t, in table order
RECURSIVE examples_from(_, _, _)
examples_from(t, i, family) ==
    IF i > Len(t) THEN <<>>
    ELSE (IF t[i][2].family = family
          THEN <<[name              |-> t[i][1],
                  color_description |-> t[i][2].color_description,
                  mood              |-> t[i][2].mood]>>
          ELSE <<>>)
         \o examples_from(t, i + 1, family)

\* get_cocktail_family_aesthetic counting the examples it shows
get_cocktail_family_aesthetic_shown(t, family) ==
    LET family_chars == MapGet(FAMILY_CHARACTERISTICS, family, EmptyDict)
        examples     == examples_from(t, 1, family)
        shown        == SubSeq(examples, 1,
                               IF Len(examples) < 5 THEN Len(examples) ELSE 5)
    IN  [family |-> family,
         characteristics |-> family_chars,
         example_cocktails |-> shown,
         total_in_family |-> Len(shown)]

get_cocktail_family_aesthetic(t, family) ==
    LET family_chars == MapGet(FAMILY_CHARACTERISTICS, family, EmptyDict)
        examples     == examples_from(t, 1, family)
    IN  [family |-> family,
         characteristics |-> family_chars,
         example_cocktails |->
             SubSeq(examples, 1, IF Len(examples) < 5 THEN Len(examples) ELSE 5),
         total_in_family |-> Len(examples)]

\* s.split(sep)[0] for a single character sep
RECURSIVE split_first(_, _)
split_first(s, sep) ==
    IF Len(s) = 0 \/ CharAt(s, 1) = sep THEN ""
    ELSE CharAt(s, 1) \o split_first(SubSeq(s, 2, Len(s)), sep)

\* by_family after the items from i on of table t were appended to it
RECURSIVE group_from(_, _, _)
group_from(t, i, by_family) ==
    IF i > Len(t) THEN by_family
    ELSE LET data   == t[i][2]
             family == data.family
             entry  == [name              |-> t[i][1],
                        base_spirit       |-> data.base_spirit,
                        color_description |-> data.color_description,
                        mood              |-> split_first(data.mood, ","),
                        era               |->
                            split_first(data.cultural_context, ",")]
             listed == MapGet(by_family, family, <<>>)
         IN  group_from(t, i + 1,
                        DictSet(by_family, family, Append(listed, entry)))

list_available_cocktails(t) ==
    LET by_family == group_from(t, 1, <<>>)
    IN  [total_cocktails |-> Len(t),
         families |-> Keys(by_family),
         cocktails_by_family |-> by_family,
         usage_tip |-> "Use enhance_with_cocktail_aesthetic with any cocktail name from this list"]

\* sub in s
contains(s, sub) ==
    \E i \in 1..(Len(s) - Len(sub) + 1) : SubSeq(s, i, i + Len(sub) - 1) = sub

RECURSIVE mood_matches_from(_, _, _)
mood_matches_from(t, i, mood_lower) ==
    IF i > Len(t) THEN <<>>
    ELSE (IF contains(lower(t[i][2].mood), mood_lower)
          THEN <<[name              |-> t[i][1],
                  mood              |-> t[i][2].mood,
                  color_description |-> t[i][2].color_description,
                  lighting          |-> t[i][2].lighting,
                  cultural_context  |-> t[i][2].cultural_context]>>
          ELSE <<>>)
         \o mood_matches_from(t, i + 1, mood_lower)

search_cocktails_by_mood(t, mood) ==
    LET matching == mood_matches_from(t, 1, lower(mood))
    IN  [mood_query    |-> mood,
         matches_found |-> Len(matching),
         cocktails     |-> matching]

RECURSIVE color_matches_from(_, _, _)
color_matches_from(t, i, search_terms) ==
    IF i > Len(t) THEN <<>>
    ELSE (IF \E j \in 1..Len(search_terms) :
                contains(lower(t[i][2].color_description), search_terms[j])
          THEN <<[name              |-> t[i][1],
                  color_description |-> t[i][2].color_description,
                  color_palette     |-> t[i][2].color_palette,
                  lighting          |-> t[i][2].lighting]>>
          ELSE <<>>)
         \o color_matches_from(t, i + 1, search_terms)

search_cocktails_by_color(t, color_preference) ==
    LET color_map ==
            << <<"red", <<"red", "burgundy", "ruby">> >>,
               <<"amber", <<"amber", "mahogany", "brown">> >>,
               <<"golden", <<"golden", "gold", "yellow">> >>,
               <<"clear", <<"clear", "crystalline", "silver", "white">> >>,
               <<"green", <<"green", "mint", "chartreuse", "lime">> >>,
               <<"purple", <<"purple", "violet", "lavender">> >>,
               <<"orange", <<"orange", "sunset">> >>,
               <<"dark", <<"dark", "espresso", "black">> >>,
               <<"pale", <<"pale", "light">> >> >>
        search_terms == MapGet(color_map, lower(color_preference),
                               <<lower(color_preference)>>)
        matching == color_matches_from(t, 1, search_terms)
    IN  [color_query   |-> color_preference,
         matches_found |-> Len(matching),
         cocktails     |-> matching]

\* Arguments the older tools are called with
OldCocktailNames ==
    {OLD_COCKTAIL_TAXONOMY[i][1] : i \in 1..Len(OLD_COCKTAIL_TAXONOMY)}
        \cup {"Mai Tai", "mai-tai", "MAI_TAI", "Old Fashioned",
              "Dark and Stormy", "dark-and-stormy", "Corpse Reviver 2",
              "Vieux Carre", "pisco  sour", "Dark 'n' Stormy",
              "Corpse Reviver #2", "cosmopolitan", "Zombie", "",
              "Vieux Carré", "NEGRON" \o CAPITAL_I_WITH_DOT,
              "Dar" \o KELVIN_SIGN \o " and Stormy"}

OldFamilies ==
    {"spirit_forward", "sour", "tiki", "highball", "after_dinner",
     "floral_sour", "spritz", "modern_classic", "Sour", "punch"}

OldMoods ==
    {"sophisticated", "refreshing", "escapist", "contemplative", "festive",
     "elegant", "playful", "mysterious", "indulgent", "Elegant"}

OldColors ==
    {"red", "amber", "golden", "clear", "green", "purple", "orange", "dark",
     "pale", "Amber", "ruby"}

OldInit ==
    /\ table = OLD_COCKTAIL_TAXONOMY
    /\ _profile_cache = <<>>
    /\ scans = 0
    /\ op = "start"
    /\ arg = <<>>
    /\ result = [started |-> TRUE]
    /\ raised = FALSE
    /\ probe = NoProbe
    /\ derived = NoProbe
    /\ callers = <<>>
    /\ overlapped = FALSE

\* The older tools keep no state: a call leaves nothing but its result
OldCall(name, a, r) ==
    /\ op' = name
    /\ arg' = a
    /\ result' = r
    /\ UNCHANGED <<table, _profile_cache, scans, raised, probe, derived,
                   callers, overlapped>>

EnhanceWithCocktailAesthetic ==
    \E p \in BasePrompts, n \in OldCocktailNames :
        OldCall("enhance_with_cocktail_aesthetic", <<p, n>>,
                enhance_with_cocktail_aesthetic(table, p, n))

GetCocktailDetails ==
    \E n \in OldCocktailNames :
        OldCall("get_cocktail_details", <<n>>, get_cocktail_details(table, n))

GetCocktailFamilyAesthetic ==
    \E f \in OldFamilies :
        OldCall("get_cocktail_family_aesthetic", <<f>>,
                get_cocktail_family_aesthetic(table, f))

ListAvailableCocktails ==
    OldCall("list_available_cocktails", <<>>, list_available_cocktails(table))

SearchCocktailsByMood ==
    \E m \in OldMoods :
        OldCall("search_cocktails_by_mood", <<m>>,
                search_cocktails_by_mood(table, m))

SearchCocktailsByColor ==
    \E c \in OldColors :
        OldCall("search_cocktails_by_color", <<c>>,
                search_cocktails_by_color(table, c))

OldNext ==
    \/ EnhanceWithCocktailAesthetic
    \/ ListAvailableCocktails
    \/ GetCocktailDetails
    \/ SearchCocktailsByMood
    \/ SearchCocktailsByColor
    \/ GetCocktailFamilyAesthetic

OldSpec == OldInit /\ [][OldNext]_vars

----------------------------------------------------------------------------
(* Vocabulary of the properties *)

CacheBackedOps ==
    {"list_cocktails", "get_cocktail_profile", "get_visual_parameters",
     "enhance_prompt_with_cocktail", "search_cocktails_by_flavor"}

LookupOps ==
    {"get_cocktail_profile", "get_visual_parameters",
     "enhance_prompt_with_cocktail"}

ToolOps == CacheBackedOps \cup {"get_spirit_warmth"}

\* The name a lookup was called with (the last argument)
NameOf(a) == a[Len(a)]

\* A name lowercased, with every space and hyphen turned into an underscore
RECURSIVE NormalizedKey(_)
NormalizedKey(s) ==
    IF Len(s) = 0 THEN ""
    ELSE (IF CharAt(s, 1) \in {" ", "-"} THEN "_" ELSE lower_char(CharAt(s, 1)))
         \o NormalizedKey(SubSeq(s, 2, Len(s)))

\* What tool `name` gives for arguments a on cache c and table t
ToolOutcome(name, a, c, t) ==
    CASE name = "list_cocktails" -> list_cocktails(c, t)
      [] name = "get_cocktail_profile" -> get_cocktail_profile(c, t, a[1])
      [] name = "get_visual_parameters" -> get_visual_parameters(c, t, a[1])
      [] name = "enhance_prompt_with_cocktail" ->
            enhance_prompt_with_cocktail(c, t, a[1], a[2])
      [] name = "search_cocktails_by_flavor" ->
            search_cocktails_by_flavor(c, t, a[1])
      [] name = "get_spirit_warmth" -> get_spirit_warmth(c, a[1])

\* the position of key in table t (0 if absent)
PositionIn(t, key) ==
    IF \E i \in 1..Len(t) : t[i][1] = key
    THEN CHOOSE i \in 1..Len(t) : t[i][1] = key
    ELSE 0

\* cache c holds only keys of table t whose record converts, each with the
\* profile its record converts to
OnlyConverted(c, t) ==
    \A j \in 1..Len(c) :
        \E i \in 1..Len(t) :
            /\ t[i][1] = c[j][1]
            /\ cocktail_to_profile_error(t[i][2]) = "none"
            /\ c[j][2] = cocktail_to_profile(t[i][2])

\* s is f with some elements left out
IsSubsequence(s, f) ==
    \E pos \in [1..Len(s) -> 1..Len(f)] :
        /\ \A i \in 1..Len(s) : s[i] = f[pos[i]]
        /\ \A i, j \in 1..Len(s) : i < j => pos[i] < pos[j]

----------------------------------------------------------------------------
(* C1 *)

\* C1: once a cache-backed query has run, no later cache-backed query scans
\* the table again, whatever the table holds (here: any table with at least
\* one record, converting or not).
ScanExactlyOnce ==
    [][(op \in CacheBackedOps /\ op' \in CacheBackedOps /\ table # <<>>)
          => scans' = scans]_vars

----------------------------------------------------------------------------
(* C2 *)

\* C2: after population the cache holds exactly the keys of the table whose
\* records convert, in table order, each mapped to its converted profile,
\* wherever the failing records stand; population lets no exception escape.
PopulationSkipsFailures ==
    (op \in CacheBackedOps \cup {"main"}) =>
        /\ raised = FALSE
        /\ \A i \in 1..Len(table) :
              /\ HasKey(_profile_cache, table[i][1])
                    <=> cocktail_to_profile_error(table[i][2]) = "none"
              /\ HasKey(_profile_cache, table[i][1])
                    <=> table[i][1] \notin {"absinthe_drip", "umami_bomb"}
        /\ OnlyConverted(_profile_cache, table)
        /\ \A j, k \in 1..Len(_profile_cache) :
              j < k => PositionIn(table, _profile_cache[j][1])
                          < PositionIn(table, _profile_cache[k][1])

\* a failing record stands first, a converting one after it, and only the
\* converting one is cached
PopulationSkipsFailuresWitness ==
    /\ op = "list_cocktails"
    /\ Len(table) = 2
    /\ table[1][1] = "absinthe_drip"
    /\ table[2][1] = "mai_tai"
    /\ Keys(_profile_cache) = <<"mai_tai">>
    /\ result.count = 1

----------------------------------------------------------------------------
(* C3 *)

\* C3: a lookup whose normalized key is not in the cache returns a result
\* holding just an error, raises nothing, and adds nothing to the cache: a
\* populated cache is left as it was, and a cache populated by this very call
\* holds only converted table records.
NotFoundIsStructured ==
    [][(/\ op' \in LookupOps
        /\ ~HasKey(_profile_cache', NormalizedKey(NameOf(arg'))))
          => /\ raised' = FALSE
             /\ DOMAIN result' = {"error"}
             /\ (_profile_cache # <<>> => _profile_cache' = _profile_cache)
             /\ OnlyConverted(_profile_cache', table)]_vars

\* the key of a record skipped during population is looked up and not found
NotFoundIsStructuredWitness ==
    /\ op = "get_cocktail_profile"
    /\ arg = <<"Absinthe Drip">>
    /\ PositionIn(table, "absinthe_drip") > 0
    /\ _profile_cache # <<>>
    /\ "error" \in DOMAIN result

----------------------------------------------------------------------------
(* C4 *)

\* C4: a lookup finds a name iff its normalized key is cached, and then
\* answers from that key's profile; every other name with the same
\* normalized key gets the same answer from the same tool (or is not found
\* either).
LookupIsNormalized ==
    op \in LookupOps =>
        LET key == NormalizedKey(NameOf(arg))
        IN  /\ ("error" \in DOMAIN result) <=> ~HasKey(_profile_cache, key)
            /\ HasKey(_profile_cache, key) =>
                  (IF op = "get_cocktail_profile" THEN result.name
                   ELSE result.cocktail) = Lookup(_profile_cache, key).name
            /\ \A n2 \in CocktailNames :
                  NormalizedKey(n2) = key =>
                      LET a2 == [arg EXCEPT ![Len(arg)] = n2]
                          r2 == ToolOutcome(op, a2, _profile_cache, table).result
                      IN  IF "error" \in DOMAIN result
                          THEN "error" \in DOMAIN r2
                          ELSE r2 = result

\* "old-fashioned" resolves to the profile cached under old_fashioned
LookupIsNormalizedWitness ==
    /\ op = "get_visual_parameters"
    /\ arg = <<"old-fashioned">>
    /\ "cocktail" \in DOMAIN result
    /\ result.cocktail = "Old Fashioned"

----------------------------------------------------------------------------
(* C5 *)

\* C5: a flavor query matches the records its normalized form (lowercase,
\* spaces and hyphens as underscores) matches.
FlavorKeyIsNormalized ==
    op = "search_cocktails_by_flavor" =>
        result.matches
            = matching_from(_profile_cache, 1, NormalizedKey(arg[1]))

----------------------------------------------------------------------------
(* C6 *)

\* C6: converting a cached record again yields the cached profile field for
\* field, and a tool's result is the one it gives as the first call of a
\* fresh process, whatever was called before.
DerivationIsDeterministic ==
    /\ \A j \in 1..Len(_profile_cache) :
          \A i \in 1..Len(table) :
              table[i][1] = _profile_cache[j][1]
                  => _profile_cache[j][2] = cocktail_to_profile(table[i][2])
    /\ op \in ToolOps => result = ToolOutcome(op, arg, <<>>, table).result

\* a second record's profile, served from a cache of two
DerivationIsDeterministicWitness ==
    /\ op = "get_visual_parameters"
    /\ Len(_profile_cache) = 2
    /\ "cocktail" \in DOMAIN result
    /\ result.cocktail = _profile_cache[2][2].name
    /\ scans = 1

----------------------------------------------------------------------------
(* C7 *)

\* C7: lighting is golden_hour for warmth >= 8 and complexity complex,
\* otherwise moody_amber for warmth >= 8, otherwise crisp_backlit for
\* warmth <= 4, otherwise warm_side_lit.
LightingPriority ==
    derived.fn = "lighting" =>
        LET w == probe.warmth
            c == probe.complexity
            out == derived.out
        IN  /\ (w >= 8 /\ c = "complex") => out = "golden_hour"
            /\ (w >= 8 /\ c # "complex") => out = "moody_amber"
            /\ w <= 4 => out = "crisp_backlit"
            /\ (w >= 5 /\ w <= 7) => out = "warm_side_lit"
            /\ (w = 9 /\ c = "simple") => out = "moody_amber"
            /\ (w = 6 /\ c = "moderate") => out = "warm_side_lit"
            /\ w = 3 => out = "crisp_backlit"

LightingPriorityWitness ==
    /\ derived.fn = "lighting"
    /\ probe.warmth = 8
    /\ probe.complexity = "complex"
    /\ derived.out = "golden_hour"

----------------------------------------------------------------------------
(* C8 *)

\* C8: texture is creamy with cream, otherwise effervescent when
\* effervescent, otherwise crystalline with ice, otherwise translucent.
TexturePriority ==
    derived.fn = "texture" =>
        /\ probe.has_cream => derived.out = "creamy"
        /\ (~probe.has_cream /\ probe.is_effervescent)
              => derived.out = "effervescent"
        /\ (~probe.has_cream /\ ~probe.is_effervescent /\ probe.has_ice)
              => derived.out = "crystalline"
        /\ (~probe.has_cream /\ ~probe.is_effervescent /\ ~probe.has_ice)
              => derived.out = "translucent"

TexturePriorityWitness ==
    /\ derived.fn = "texture"
    /\ ~probe.has_cream
    /\ probe.is_effervescent
    /\ probe.has_ice
    /\ derived.out = "effervescent"

----------------------------------------------------------------------------
(* C9 *)

\* the secondary moods of (richness, complexity, sweetness) as C9 states them
MoodsAsClaimed(moods, richness, complexity, sweetness) ==
    /\ (\E i \in 1..Len(moods) : moods[i] = "elegant") <=> richness >= 7
    /\ (\E i \in 1..Len(moods) : moods[i] = "aromatic") <=> complexity = "complex"
    /\ (\E i \in 1..Len(moods) : moods[i] = "playful") <=> sweetness >= 6
    /\ IsSubsequence(moods, <<"elegant", "aromatic", "playful">>)
    /\ (richness = 8 /\ complexity = "complex" /\ sweetness = 7)
          => moods = <<"elegant", "aromatic", "playful">>
    /\ (richness = 2 /\ complexity = "simple" /\ sweetness = 1) => moods = <<>>

\* C9: the secondary moods are elegant if richness >= 7, then aromatic if
\* complexity is complex, then playful if sweetness >= 6: a subsequence of
\* <<elegant, aromatic, playful>>, in the block alone and in the visual
\* parameters built with it.
MoodsAccumulate ==
    /\ derived.fn = "moods" =>
          MoodsAsClaimed(derived.out, probe.richness, probe.complexity,
                         probe.sweetness)
    /\ derived.fn = "build" =>
          MoodsAsClaimed(derived.out.secondary_moods, probe.richness,
                         probe.complexity, probe.sweetness)

MoodsAccumulateWitness ==
    /\ derived.fn = "moods"
    /\ probe.richness = 7
    /\ probe.complexity = "simple"
    /\ probe.sweetness = 6
    /\ derived.out = <<"elegant", "playful">>

----------------------------------------------------------------------------
(* C10 *)

\* the temperature vibe of a warmth as C10 states it
TemperatureAsClaimed(vibe, warmth) ==
    /\ warmth >= 8 => vibe = "warm"
    /\ warmth <= 3 => vibe = "icy"
    /\ (warmth >= 4 /\ warmth <= 7) => vibe = "ambient"
    /\ vibe \notin {"hot", "cool"}

\* C10: the temperature vibe is warm for warmth >= 8, icy for warmth <= 3
\* and ambient between, never hot or cool; the visual parameters built for a
\* spirit carry the vibe of that spirit's warmth.
TemperatureFromWarmth ==
    /\ derived.fn = "temperature" =>
          TemperatureAsClaimed(derived.out, probe.warmth)
    /\ derived.fn = "build" =>
          TemperatureAsClaimed(derived.out.temperature_vibe,
                               spirit_base_to_warmth(probe.spirit))

TemperatureFromWarmthWitness ==
    /\ derived.fn = "temperature"
    /\ probe.warmth = 4
    /\ derived.out = "ambient"


----------------------------------------------------------------------------
\* C11: each of the four table-driven mappings always returns a value: for
\* a recognized label its table entry (warmth: rum 9, cognac 9, whiskey 8,
\* mezcal 8, tequila 7, gin 5, vodka 3), for every other input its fixed
\* default (warmth 5, color clear, mood sophisticated, composition balanced).
TablesAsClaimed ==
    [warmth |-> [entries |-> [rum |-> 9, cognac |-> 9, whiskey |-> 8,
                              mezcal |-> 8, tequila |-> 7, gin |-> 5,
                              vodka |-> 3],
                 default |-> 5],
     color |-> [entries |-> [rum |-> "golden", whiskey |-> "amber",
                             cognac |-> "amber", mezcal |-> "golden",
                             tequila |-> "clear", gin |-> "clear",
                             vodka |-> "clear"],
                default |-> "clear"],
     mood |-> [entries |-> [bitter |-> "sophisticated", sweet |-> "playful",
                            spirit_forward |-> "bold", herbal |-> "elegant",
                            fruity |-> "tropical", creamy |-> "nostalgic",
                            smoky |-> "dark", sour |-> "bold",
                            spiced |-> "aromatic"],
               default |-> "sophisticated"],
     composition |-> [entries |-> [simple |-> "minimalist",
                                   moderate |-> "balanced",
                                   complex |-> "layered"],
                      default |-> "balanced"]]

TableFns == {"warmth", "color", "mood", "composition"}

TableMappingsTotal ==
    derived.fn \in TableFns =>
        LET t == TablesAsClaimed[derived.fn]
        IN  /\ DOMAIN derived = {"fn", "out"}
            /\ derived.out = IF probe.label \in DOMAIN t.entries
                              THEN t.entries[probe.label]
                              ELSE t.default

TableMappingsTotalWitness ==
    /\ derived.fn = "warmth"
    /\ probe.label = "absinthe"
    /\ derived.out = 5


----------------------------------------------------------------------------
\* C12: converting a record fails as a whole, with no profile, whenever its
\* spirit-base, primary-flavor or complexity label, lowercased, is not an
\* enum label; it returns a fully populated profile whenever all three,
\* lowercased, are enum labels, whatever their letter case.
LabelsRecognized(d) ==
    /\ lower(d.spirit_base) \in Members(SpiritBase)
    /\ lower(d.primary_flavor) \in Members(FlavorType)
    /\ lower(Get(d, "complexity", "moderate")) \in Members(ComplexityLevel)

ProfileFields ==
    {"name", "spirit_base", "primary_flavor", "flavor_profile",
     "visual_parameters", "description"}

ConversionFailsIffUnrecognized ==
    derived.fn = "convert" =>
        IF LabelsRecognized(probe.data)
        THEN /\ derived.out.error = "none"
             /\ DOMAIN derived.out.profile = ProfileFields
        ELSE /\ derived.out.error # "none"
             /\ DOMAIN derived.out = {"error"}


----------------------------------------------------------------------------
\* C13: for a spirit name that lowercases to one of the 7 table entries,
\* get_spirit_warmth returns that entry's warmth, interpreted as "very warm,
\* golden, nostalgic" from 8 up, "warm, moderate, balanced" for 6 and 7 and
\* "cool, crisp, clean" below; for every other name it returns a not-found
\* error and no warmth, never the default 5.
InterpretationAsClaimed(warmth) ==
    IF warmth >= 8 THEN "very warm, golden, nostalgic"
    ELSE IF 6 <= warmth /\ warmth < 8 THEN "warm, moderate, balanced"
    ELSE "cool, crisp, clean"

SpiritWarmthOrNotFound ==
    derived.fn = "spirit_warmth" =>
        LET entries == TablesAsClaimed.warmth.entries
            l       == lower(probe.name)
        IN  IF l \in DOMAIN entries
            THEN /\ "error" \notin DOMAIN derived.out
                 /\ derived.out.warmth_level = entries[l]
                 /\ derived.out.interpretation =
                        InterpretationAsClaimed(entries[l])
            ELSE /\ DOMAIN derived.out = {"error"}
                 /\ derived.out.error =
                        <<"Spirit '", probe.name, "' not recognized">>

SpiritWarmthOrNotFoundWitness ==
    /\ derived.fn = "spirit_warmth"
    /\ probe.name = "bourbon"
    /\ "warmth_level" \notin DOMAIN derived.out


----------------------------------------------------------------------------
\* C14: search_cocktails_by_flavor returns, in cache order, exactly the
\* cached profiles whose primary flavor equals the lowercased query, and
\* count is their number; a query matching nothing, an unrecognized flavor
\* label included, returns no matches and count 0, not an error.
HasFlavor(entry, flavor) == entry[2].primary_flavor = flavor

CachedWithFlavor(flavor) ==
    SelectSeq(_profile_cache, LAMBDA entry : HasFlavor(entry, flavor))

SearchReturnsExactMatches ==
    op = "search_cocktails_by_flavor" =>
        LET hits == CachedWithFlavor(lower(arg[1]))
        IN  /\ ~raised
            /\ DOMAIN result = {"flavor", "matches", "count"}
            /\ result.flavor = lower(arg[1])
            /\ result.count = Len(hits)
            /\ Len(result.matches) = Len(hits)
            /\ \A i \in 1..Len(hits) :
                   /\ result.matches[i].id = hits[i][1]
                   /\ result.matches[i].name = hits[i][2].name
                   /\ result.matches[i].description = hits[i][2].description

SearchReturnsExactMatchesWitness ==
    /\ op = "search_cocktails_by_flavor"
    /\ arg = <<"BITTER">>
    /\ result.count = 2
    /\ result.matches[1].id = "negroni"
    /\ result.matches[2].id = "espresso_martini"


----------------------------------------------------------------------------
\* C15: list_cocktails returns exactly one entry {id, name, spirit_base,
\* primary_flavor, description} per cached profile, in table order, with id
\* the cache key and count the number of entries; a record skipped during
\* population does not appear; with the shipped table all 8 records appear.
ListedIds == [i \in 1..Len(result.cocktails) |-> result.cocktails[i].id]

ListMirrorsCache ==
    op = "list_cocktails" =>
        /\ ~raised
        /\ DOMAIN result = {"cocktails", "count"}
        /\ result.count = Len(result.cocktails)
        /\ Len(result.cocktails) = Len(_profile_cache)
        /\ \A i \in 1..Len(_profile_cache) :
               LET entry   == result.cocktails[i]
                   profile == _profile_cache[i][2]
               IN  /\ DOMAIN entry = {"id", "name", "spirit_base",
                                      "primary_flavor", "description"}
                   /\ entry.id = _profile_cache[i][1]
                   /\ entry.name = profile.name
                   /\ entry.spirit_base = profile.spirit_base
                   /\ entry.primary_flavor = profile.primary_flavor
                   /\ entry.description = profile.description
        /\ \A j \in 1..Len(ListedIds) : PositionIn(table, ListedIds[j]) > 0
        /\ \A j, k \in 1..Len(ListedIds) :
               j < k => PositionIn(table, ListedIds[j])
                           < PositionIn(table, ListedIds[k])
        /\ \A i \in 1..Len(table) :
               cocktail_to_profile_error(table[i][2]) # "none"
                   => \A j \in 1..Len(ListedIds) : ListedIds[j] # table[i][1]
        /\ table = COCKTAIL_TAXONOMY =>
               /\ result.count = 8
               /\ ListedIds = Keys(COCKTAIL_TAXONOMY)

ListMirrorsCacheWitness ==
    /\ op = "list_cocktails"
    /\ table = COCKTAIL_TAXONOMY
    /\ result.count = 8
    /\ result.cocktails[8].id = "sazerac"


----------------------------------------------------------------------------
\* C16: for a found name enhance_prompt_with_cocktail echoes the base
\* prompt unchanged in original_prompt, gives mood_keywords as the primary
\* mood followed by the secondary moods in derivation order (1 to 4 moods),
\* and builds one suggestion string from those moods, the lighting style,
\* at most the first two palette colors, the composition and the texture;
\* but for the echoed field the result is the same for every base prompt.
FirstTwo(colors) == [i \in 1..(IF Len(colors) < 2 THEN Len(colors) ELSE 2) |->
                        colors[i]]

RECURSIVE CommaSeparated(_)
CommaSeparated(words) ==
    IF words = <<>> THEN ""
    ELSE IF Len(words) = 1 THEN Head(words)
    ELSE Head(words) \o ", " \o CommaSeparated(Tail(words))

SuggestionAsClaimed(visual) ==
    "Add these aesthetic qualities to your prompt: "
        \o CommaSeparated(<<visual.primary_mood>> \o visual.secondary_moods)
        \o ". Use " \o visual.lighting_style
        \o " lighting. Color palette suggestion: "
        \o CommaSeparated(FirstTwo(visual.color_palette))
        \o ". Composition: " \o visual.composition_strategy
        \o ". Texture: " \o visual.texture_quality \o "."

EnhancementFromProfile ==
    (op = "enhance_prompt_with_cocktail" /\ "error" \notin DOMAIN result) =>
        LET visual ==
                Lookup(_profile_cache, NormalizedKey(arg[2])).visual_parameters
        IN  /\ ~raised
            /\ result.original_prompt = arg[1]
            /\ result.mood_keywords =
                   <<visual.primary_mood>> \o visual.secondary_moods
            /\ Len(result.mood_keywords) \in 1..4
            /\ result.suggested_enhancement = SuggestionAsClaimed(visual)
            /\ \A p \in BasePrompts :
                   LET other == enhance_prompt_with_cocktail(
                                    _profile_cache, table, p, arg[2]).result
                   IN  /\ other.original_prompt = p
                       /\ [other EXCEPT !.original_prompt = arg[1]] = result

EnhancementFromProfileWitness ==
    /\ op = "enhance_prompt_with_cocktail"
    /\ arg = <<"a lighthouse at dusk", "mai-tai">>
    /\ "error" \notin DOMAIN result
    /\ result.mood_keywords = <<"tropical", "elegant", "aromatic", "playful">>
    /\ Len(result.color_direction) = 4
    /\ result.suggested_enhancement =
          "Add these aesthetic qualities to your prompt: tropical, elegant, aromatic, playful. Use golden_hour lighting. Color palette suggestion: #FF6B35, #F7931E. Composition: layered. Texture: crystalline."


----------------------------------------------------------------------------
\* C17: the populate-if-empty check has no lock.  Two callers whose first
\* queries overlap can both find the cache empty and both scan and populate
\* it, so the table is scanned more than once; when callers run strictly
\* one after another that state is not reachable: no two callers both
\* populate, and a table with a record to cache is scanned at most once.
Populated(th) ==
    /\ callers[th].saw_empty
    /\ callers[th].stored > 0

DoublePopulation ==
    \E a, b \in DOMAIN callers : a # b /\ Populated(a) /\ Populated(b)

SomeRecordConverts ==
    \E i \in 1..Len(table) : cocktail_to_profile_error(table[i][2]) = "none"

SequentialCallersPopulateOnce ==
    ~overlapped =>
        /\ ~DoublePopulation
        /\ SomeRecordConverts => scans <= 1

\* both callers found the shipped table's cache empty, and each scanned the
\* table and stored all 8 profiles
SequentialCallersPopulateOnceWitness ==
    /\ overlapped
    /\ table = COCKTAIL_TAXONOMY
    /\ DoublePopulation
    /\ scans = 2
    /\ \A th \in DOMAIN callers :
          callers[th].pc = "done" /\ callers[th].stored = 8


----------------------------------------------------------------------------
\* C18: bitterness does not influence the visual parameters.  Two records
\* that differ only in their bitterness score (any of 0..10) yield the same
\* VisualParameters, the same lighting style in particular, and the
\* lighting styles that only the bitterness mapping gives, dramatic_shadow
\* and diffused_soft, never appear in a derived profile.
BitternessOnlyLighting == {"dramatic_shadow", "diffused_soft"}

WithBitterness(d, b) ==
    [k \in DOMAIN d \cup {"bitterness"} |->
        IF k = "bitterness" THEN b ELSE d[k]]

BitternessIsIgnored ==
    /\ derived.fn = "build" =>
          /\ \A b \in 0..MaxScore :
                 build_visual_parameters(
                     probe.spirit, probe.primary_flavor, probe.complexity, b,
                     probe.sweetness, probe.richness, <<>>, FALSE, TRUE, FALSE)
                 = derived.out
          /\ derived.out.lighting_style \notin BitternessOnlyLighting
    /\ (derived.fn = "convert" /\ derived.out.error = "none") =>
          /\ \A b \in 0..MaxScore :
                 cocktail_to_profile(WithBitterness(probe.data, b))
                     .visual_parameters
                 = derived.out.profile.visual_parameters
          /\ derived.out.profile.visual_parameters.lighting_style
                 \notin BitternessOnlyLighting

\* vodka with the highest bitterness: lit by its warmth, not dramatic_shadow
BitternessIsIgnoredWitness ==
    /\ derived.fn = "build"
    /\ probe.spirit = "vodka"
    /\ probe.bitterness = MaxScore
    /\ bitterness_to_lighting(probe.bitterness) = "dramatic_shadow"
    /\ derived.out.lighting_style = "crisp_backlit"


----------------------------------------------------------------------------
\* C19: in every derived profile the flavor profile has an empty list of
\* secondary flavors, a warmth level equal to the warmth mapping of the
\* record's spirit base (so records with the same spirit have the same
\* warmth), and the record's own bitterness, sweetness and richness; its
\* warmth is the warmth from which lighting and temperature are derived.
SameSpirit(d1, d2) == lower(d1.spirit_base) = lower(d2.spirit_base)

FlavorProfileFromRecord ==
    (derived.fn = "convert" /\ derived.out.error = "none") =>
        LET d      == probe.data
            flavor == derived.out.profile.flavor_profile
            visual == derived.out.profile.visual_parameters
        IN  /\ flavor.secondary_flavors = <<>>
            /\ flavor.warmth_level =
                   spirit_base_to_warmth(derived.out.profile.spirit_base)
            /\ flavor.warmth_level =
                   TablesAsClaimed.warmth.entries[lower(d.spirit_base)]
            /\ \A other \in ConvertRecords \cup ScoredRecords :
                   (SameSpirit(d, other)
                        /\ cocktail_to_profile_error(other) = "none")
                   => cocktail_to_profile(other).flavor_profile.warmth_level
                          = flavor.warmth_level
            /\ \A score \in {"bitterness", "sweetness", "richness"} :
                   score \in DOMAIN d => flavor[score] = d[score]
            /\ visual.lighting_style =
                   warmth_and_complexity_to_lighting(flavor.warmth_level,
                                                     flavor.complexity)
            /\ visual.temperature_vibe = temperature_vibe(flavor.warmth_level)

FlavorProfileFromRecordWitness ==
    /\ derived.fn = "convert"
    /\ probe.data \in ScoredRecords
    /\ probe.data.spirit_base = "tequila"
    /\ probe.data.bitterness = 0
    /\ probe.data.richness = 8
    /\ derived.out.profile.flavor_profile.warmth_level = 7
    /\ derived.out.profile.flavor_profile.bitterness = 0
    /\ derived.out.profile.flavor_profile.richness = 8
    /\ derived.out.profile.visual_parameters.temperature_vibe = "ambient"


----------------------------------------------------------------------------
\* C20: once the cache has been populated, no query adds, removes or
\* replaces a cache entry: after any sequence of queries, found or not
\* found, the cache holds the same keys mapped to the same profiles as
\* right after population.
RightAfterPopulation == populate_from(table, 1, <<>>).cache

QueriesLeaveCacheAlone ==
    [][scans >= 1 => /\ _profile_cache' = _profile_cache
                     /\ _profile_cache' = RightAfterPopulation]_vars

\* a lookup that found its cocktail in the populated cache of the shipped
\* table, all 8 profiles still cached
QueriesLeaveCacheAloneWitness ==
    /\ op = "get_cocktail_profile"
    /\ arg = <<"Old Fashioned">>
    /\ "error" \notin DOMAIN result
    /\ scans = 1
    /\ Keys(_profile_cache) = Keys(COCKTAIL_TAXONOMY)


----------------------------------------------------------------------------
\* C21: conversion fills every optional field that the raw record lacks
\* with its default (complexity moderate, bitterness, sweetness and
\* richness 5, empty color palette, has_cream false, has_ice true,
\* is_effervescent false, empty description), so a record holding only
\* name, spirit base and primary flavor converts to a profile with
\* composition balanced, texture crystalline and no secondary moods; a
\* color palette that is present is copied into the visual parameters
\* unchanged and in order.
DefaultsAsClaimed ==
    [complexity      |-> "moderate",
     bitterness      |-> 5,
     sweetness       |-> 5,
     richness        |-> 5,
     color_palette   |-> <<>>,
     has_cream       |-> FALSE,
     has_ice         |-> TRUE,
     is_effervescent |-> FALSE,
     description     |-> ""]

WithField(d, key, value) ==
    [k \in DOMAIN d \cup {key} |-> IF k = key THEN value ELSE d[k]]

AbsentFieldsDefault ==
    (derived.fn = "convert" /\ derived.out.error = "none") =>
        LET d       == probe.data
            profile == derived.out.profile
        IN  /\ \A key \in DOMAIN DefaultsAsClaimed \ DOMAIN d :
                   /\ cocktail_to_profile_error(
                          WithField(d, key, DefaultsAsClaimed[key])) = "none"
                   /\ cocktail_to_profile(
                          WithField(d, key, DefaultsAsClaimed[key])) = profile
            /\ DOMAIN d = {"name", "spirit_base", "primary_flavor"} =>
                   /\ profile.flavor_profile.complexity = "moderate"
                   /\ profile.flavor_profile.bitterness = 5
                   /\ profile.flavor_profile.sweetness = 5
                   /\ profile.flavor_profile.richness = 5
                   /\ profile.description = ""
                   /\ profile.visual_parameters.color_palette = <<>>
                   /\ profile.visual_parameters.composition_strategy
                          = "balanced"
                   /\ profile.visual_parameters.texture_quality
                          = "crystalline"
                   /\ profile.visual_parameters.secondary_moods = <<>>
            /\ "color_palette" \in DOMAIN d =>
                   profile.visual_parameters.color_palette = d.color_palette

\* a record with nothing but the required keys and a three-color palette
AbsentFieldsDefaultWitness ==
    /\ derived.fn = "convert"
    /\ DOMAIN probe.data =
          {"name", "spirit_base", "primary_flavor", "color_palette"}
    /\ derived.out.profile.visual_parameters.color_palette =
          <<"#222222", "#111111", "#333333">>
    /\ derived.out.profile.visual_parameters.texture_quality = "crystalline"
    /\ derived.out.profile.flavor_profile.complexity = "moderate"


----------------------------------------------------------------------------
\* C22: get_spirit_warmth is a pure lookup in its own static table: it
\* never triggers cache population and leaves the cache unchanged, so as
\* the first operation after process start it leaves the cache empty and
\* the static table unscanned.
SpiritWarmthLeavesCacheAlone ==
    [][op' = "get_spirit_warmth" =>
          /\ _profile_cache' = _profile_cache
          /\ scans' = scans
          /\ table' = table
          /\ op = "start" => (_profile_cache' = <<>> /\ scans' = 0)]_vars

\* first operation of the process on the shipped table: a warmth is
\* returned, nothing is cached, nothing was scanned
SpiritWarmthLeavesCacheAloneWitness ==
    /\ op = "get_spirit_warmth"
    /\ arg = <<"Rum">>
    /\ result.warmth_level = 9
    /\ table = COCKTAIL_TAXONOMY
    /\ _profile_cache = <<>>
    /\ scans = 0


----------------------------------------------------------------------------
\* C23: in the older interface get_cocktail_family_aesthetic returns as
\* example_cocktails the first min(5, n) cocktails of the family in table
\* order, while total_in_family is the full count n (5 examples and total 7
\* for spirit_forward); for a family that has cocktails but no entry in the
\* family-characteristics table (floral_sour, spritz, modern_classic) the
\* characteristics are empty and the examples are still returned, never an
\* error.
InFamily(family) == SelectSeq(table, LAMBDA entry : entry[2].family = family)

Smaller(a, b) == IF a < b THEN a ELSE b

FamiliesWithoutCharacteristics == {"floral_sour", "spritz", "modern_classic"}

FamilyExamplesCapped ==
    op = "get_cocktail_family_aesthetic" =>
        LET family  == arg[1]
            members == InFamily(family)
            n       == Len(members)
        IN  /\ ~raised
            /\ "error" \notin DOMAIN result
            /\ result.total_in_family = n
            /\ Len(result.example_cocktails) = Smaller(5, n)
            /\ \A i \in 1..Smaller(5, n) :
                  /\ result.example_cocktails[i].name = members[i][1]
                  /\ result.example_cocktails[i].mood = members[i][2].mood
                  /\ result.example_cocktails[i].color_description
                        = members[i][2].color_description
            /\ family = "spirit_forward" =>
                  (Len(result.example_cocktails) = 5 /\ n = 7)
            /\ family \in FamiliesWithoutCharacteristics =>
                  /\ n > 0
                  /\ ~HasKey(FAMILY_CHARACTERISTICS, family)
                  /\ result.characteristics = <<>>
                  /\ Len(result.example_cocktails) = n

FamilyExamplesCappedWitness ==
    /\ op = "get_cocktail_family_aesthetic"
    /\ arg = <<"spirit_forward">>
    /\ result.total_in_family = 7
    /\ Len(result.example_cocktails) = 5
    /\ result.example_cocktails[5].name = "boulevardier"

----------------------------------------------------------------------------
\* C24: in the older interface enhance_with_cocktail_aesthetic and
\* get_cocktail_details normalize the cocktail name like the newer one
\* (lowercase, spaces and hyphens to underscores); for a name whose key is
\* not in the table they return an error result that carries every
\* available cocktail key in sorted order instead of raising; for a found
\* name the returned visual fields are the static record's fields unchanged.
OldLookupOps == {"enhance_with_cocktail_aesthetic", "get_cocktail_details"}

\* ks lists every key of the table once, in ascending order
ListsKeysSorted(ks) ==
    /\ Len(ks) = Len(table)
    /\ {ks[i] : i \in 1..Len(ks)} = {table[i][1] : i \in 1..Len(table)}
    /\ \A i, j \in 1..Len(ks) : i < j => str_less(ks[i], ks[j])

OldLookupNormalizedOrListed ==
    op \in OldLookupOps =>
        LET key == NormalizedKey(NameOf(arg))
        IN  /\ ~raised
            /\ IF ~HasKey(table, key)
               THEN /\ "error" \in DOMAIN result
                    /\ \E ks \in {sorted(Keys(table))} :
                          /\ ListsKeysSorted(ks)
                          /\ result.available_cocktails = CommaSeparated(ks)
               ELSE LET record == Lookup(table, key)
                    IN  /\ "error" \notin DOMAIN result
                        /\ op = "get_cocktail_details" =>
                              result.profile = record
                        /\ op = "enhance_with_cocktail_aesthetic" =>
                              result.visual_parameters =
                                [color_palette        |-> record.color_palette,
                                 color_description    |->
                                     record.color_description,
                                 lighting_style       |-> record.lighting,
                                 mood_keywords        |-> record.mood,
                                 composition_guide    |-> record.composition,
                                 texture_notes        |-> record.texture,
                                 cultural_context     |->
                                     record.cultural_context,
                                 temporal_association |->
                                     record.temporal_association,
                                 technique_influence  |-> record.technique]

\* a name with a character the normalization keeps: not found, and the 20
\* keys come back sorted
OldLookupNormalizedOrListedWitness ==
    /\ op = "get_cocktail_details"
    /\ arg = <<"Corpse Reviver #2">>
    /\ "error" \in DOMAIN result
    /\ result.available_cocktails =
          "aperol_spritz, aviation, boulevardier, bramble, corpse_reviver_2, daiquiri, dark_and_stormy, espresso_martini, last_word, mai_tai, manhattan, margarita, martini, mojito, negroni, old_fashioned, penicillin, pisco_sour, sazerac, vieux_carre"


----------------------------------------------------------------------------
\* C25: the two warmth tables agree.  For each of the 7 recognized spirits
\* the warmth_level get_spirit_warmth returns equals the warmth
\* spirit_base_to_warmth uses, hence the warmth_level get_cocktail_profile
\* reports for any cocktail with that spirit base; the two differ only on
\* unrecognized names: not found there, the default 5 here.
ReportedWarmth(record) ==
    get_cocktail_profile(<<>>, << <<"scored", record>> >>, "scored")
        .result.flavor_profile.warmth_level

WarmthTablesAgree ==
    derived.fn = "spirit_warmth" =>
        LET spirit == lower(probe.name)
        IN  IF spirit \in Members(SpiritBase)
            THEN /\ derived.out.warmth_level = spirit_base_to_warmth(spirit)
                 /\ \A record \in ScoredRecords :
                       record.spirit_base = spirit
                           => ReportedWarmth(record) = derived.out.warmth_level
            ELSE /\ "error" \in DOMAIN derived.out
                 /\ "warmth_level" \notin DOMAIN derived.out
                 /\ spirit_base_to_warmth(spirit) = 5

WarmthTablesAgreeWitness ==
    /\ derived.fn = "spirit_warmth"
    /\ probe.name = "TEQUILA"
    /\ derived.out.warmth_level = 7
    /\ spirit_base_to_warmth("tequila") = 7
    /\ \E record \in ScoredRecords :
          record.spirit_base = "tequila" /\ ReportedWarmth(record) = 7


----------------------------------------------------------------------------
\* C26: in every profile built by build_visual_parameters lighting and
\* temperature are coupled, both deriving from the same warmth: temperature
\* is warm exactly when lighting is golden_hour or moody_amber, temperature
\* icy implies lighting crisp_backlit, lighting is always one of
\* golden_hour, moody_amber, crisp_backlit, warm_side_lit, and the primary
\* color category is always one of golden, amber, clear.
BuiltVisual ==
    IF derived.fn = "build" THEN derived.out
    ELSE derived.out.profile.visual_parameters

LightingTemperatureCoupled ==
    (\/ derived.fn = "build"
     \/ (derived.fn = "convert" /\ derived.out.error = "none")) =>
        /\ BuiltVisual.temperature_vibe = "warm"
              <=> BuiltVisual.lighting_style \in {"golden_hour", "moody_amber"}
        /\ BuiltVisual.temperature_vibe = "icy"
              => BuiltVisual.lighting_style = "crisp_backlit"
        /\ BuiltVisual.lighting_style \in
              {"golden_hour", "moody_amber", "crisp_backlit", "warm_side_lit"}
        /\ BuiltVisual.primary_color_category \in {"golden", "amber", "clear"}

\* whiskey, warmth 8: warm on the temperature side, golden hour on the
\* lighting side
LightingTemperatureCoupledWitness ==
    /\ derived.fn = "build"
    /\ probe.spirit = "whiskey"
    /\ probe.complexity = "complex"
    /\ derived.out.temperature_vibe = "warm"
    /\ derived.out.lighting_style = "golden_hour"
    /\ derived.out.primary_color_category = "amber"


----------------------------------------------------------------------------
\* C27: under concurrent access a query can observe a partially populated
\* cache.  While one caller is in the middle of the population scan (an
\* entry stored, not all of them), a second caller's emptiness check finds
\* the cache non-empty and skips population; its lookup of a name whose
\* record is in the table and converts then returns the not-found result,
\* and its list_cocktails returns fewer entries than the table yields.  A
\* query comes out short in this way only: whenever a lookup is about to
\* miss a convertible record, or a listing to count fewer entries than
\* convert, the caller skipped population while another caller was in
\* mid-scan, and a caller that skipped answers from the cache as it stands.
ConvertingKeys ==
    {table[i][1] : i \in {j \in 1..Len(table) :
                             cocktail_to_profile_error(table[j][2]) = "none"}}

MidScan(o) ==
    /\ callers[o].pc = "scan"
    /\ callers[o].stored >= 1
    /\ Len(_profile_cache) < Cardinality(ConvertingKeys)

SkippedMidScan(th) ==
    /\ ~callers[th].saw_empty
    /\ \E o \in DOMAIN callers : o # th /\ MidScan(o)

LookupAbout(th) ==
    get_cocktail_profile(_profile_cache, table, callers[th].name).result

ListingAbout ==
    list_cocktails(_profile_cache, table).result

PartialCacheIsObserved ==
    \A th \in DOMAIN callers :
        /\ (callers[th].pc = "query"
               /\ callers[th].tool = "get_cocktail_profile") =>
              LET key == NormalizedKey(callers[th].name)
              IN  /\ (key \in ConvertingKeys /\ "error" \in DOMAIN LookupAbout(th))
                        => SkippedMidScan(th)
                  /\ (SkippedMidScan(th) /\ ~HasKey(_profile_cache, key))
                        => LookupAbout(th) = NotFound(callers[th].name)
        /\ (callers[th].pc = "listing"
               /\ Len(_profile_cache) = callers[th].size) =>
              /\ ListingAbout.count = Len(_profile_cache)
              /\ ListingAbout.count < Cardinality(ConvertingKeys)
                    => SkippedMidScan(th)

\* the shipped table: one caller has stored negroni only and is still in its
\* scan; the other found the cache non-empty, skipped population, and its
\* get_cocktail_profile("mai-tai") returned the not-found result although
\* mai_tai is in the table and converts; list_cocktails on this cache gives
\* 1 entry of 8
PartialCacheIsObservedWitness ==
    /\ table = COCKTAIL_TAXONOMY
    /\ "mai_tai" \in ConvertingKeys
    /\ op = "get_cocktail_profile"
    /\ arg = <<"mai-tai">>
    /\ result = NotFound("mai-tai")
    /\ \E th, o \in DOMAIN callers :
          /\ callers[th].pc = "done"
          /\ ~callers[th].saw_empty
          /\ callers[th].stored = 0
          /\ MidScan(o)
          /\ callers[o].stored = 1
    /\ Keys(_profile_cache) = <<"negroni">>
    /\ ListingAbout.count = 1
    /\ Cardinality(ConvertingKeys) = 8

\* the same moment seen by list_cocktails: the listing of a caller that
\* skipped population counted 1 entry of the 8 the table yields
ShortListingObserved ==
    /\ table = COCKTAIL_TAXONOMY
    /\ op = "list_cocktails"
    /\ ~raised
    /\ result.count = 1
    /\ \E o \in DOMAIN callers : MidScan(o) /\ callers[o].stored = 1

\* a store by the scanning caller between two steps of the listing loop
ListingInterrupted ==
    /\ op = "list_cocktails"
    /\ raised
    /\ result = [exception |-> TRUE]

=============================================================================
